---- MODULE Spec2Model ----
(***************************************************************************)
(* The financial state engine of the finance tracker: the aggregate        *)
(* FinancialData, the reducer financialReducer that every mutation goes    *)
(* through, and the handlers that dispatch to it (purchase board drop,     *)
(* export / import of the aggregate).                                      *)
(***************************************************************************)
EXTENDS Integers, Sequences, FiniteSets, TLC

VARIABLES
    state,      \* the aggregate held by useReducer (FinancialData)
    now,        \* the clock read by Date.now(): one tick per handler event
    file,       \* the last document written by handleExport, or NoFile
    last,       \* the action most recently handed to the reducer
    budget,     \* how many more handler events the run explores
    storage,    \* window.localStorage: the documents under its two keys
    mounted,    \* whether FinancialProvider's mount effects have run
    engines,    \* the local state of the insight and rundown components
    env         \* process.env.API_KEY of the build ("" when not set)

vars == <<state, now, file, last, budget, storage, mounted, engines, env>>

\* ---------------------------------------------------------------- bounds

\* Handler events explored per run: in the specifications of one view, and in
\* those that mix the handlers of all views.
MaxSteps == 3
MaxStepsWide == 2

\* ----------------------------------------------------------------- enums

ExpenseMode_Survival == "Survival Mode"
ExpenseMode_Growth == "Growth Mode"
ExpenseMode_Both == "Both"
ExpensePlanMode_Survival == "Survival"
ExpensePlanMode_Growth == "Growth"

PurchaseStatus == {"Considering", "Purchased", "Declined"}

CollectionNames ==
    {"expenses", "recurringExpenses", "debts", "income", "assets",
     "incomeGoals", "expensePlans", "purchases"}

\* ------------------------------------------------------------- sequences

\* Array.prototype.map.
Map(seq, f(_)) == [i \in 1..Len(seq) |-> f(seq[i])]

\* Array.prototype.some.
Some(seq, test(_)) == \E i \in 1..Len(seq) : test(seq[i])

\* The ids of a collection (new Set(xs.map(x => x.id))).
Ids(seq) == {seq[i].id : i \in 1..Len(seq)}

\* ------------------------------------------------------------ month keys

Years == 2024..2026

PadStart2(n) == IF n < 10 THEN "0" \o ToString(n) ELSE ToString(n)

\* `${getFullYear()}-${(getMonth() + 1).toString().padStart(2, '0')}`
MonthKey(y, m) == ToString(y) \o "-" \o PadStart2(m)

MonthKeyTable == [ym \in Years \X (1..12) |-> MonthKey(ym[1], ym[2])]

NaN == -1

\* new Date(key + "-01T00:00:00Z"): the month ordinal of a YYYY-MM key, and
\* an Invalid Date (NaN time value) for any other string.
ParseMonthStart(key) ==
    IF \E ym \in DOMAIN MonthKeyTable : MonthKeyTable[ym] = key
    THEN LET ym == CHOOSE p \in DOMAIN MonthKeyTable : MonthKeyTable[p] = key
         IN  ym[1] * 12 + (ym[2] - 1)
    ELSE NaN

\* Mutant: a template starts logging the month after its start month.
DateLeq_Strict(a, b) == a # NaN /\ b # NaN /\ a < b

\* a <= b on Date objects: false as soon as one of them is an Invalid Date.
DateLeq(a, b) == a # NaN /\ b # NaN /\ a <= b

\* The seed's 14 month keys, from November 2025 on.
months ==
    [i \in 1..14 |->
        MonthKey(2025 + ((10 + (i - 1)) \div 12), ((10 + (i - 1)) % 12) + 1)]

incomeGoalAmounts ==
    <<1500, 1800, 2000, 2200, 2500, 2800, 3000, 3200, 3500, 3800, 4000, 4200,
      4500, 5000>>

\* ------------------------------------------------------------------ seed
\* Amounts are whole currency units; interest rates are kept in tenths of a
\* percent (5.5 is 55, 19.9 is 199).

initialState ==
    [expenses |-> <<
        [id |-> "e1", date |-> "2025-11-05", category |-> "Housing",
         amount |-> 650, description |-> "Rent", mode |-> ExpenseMode_Both],
        [id |-> "e2", date |-> "2025-11-03", category |-> "Food",
         amount |-> 80, description |-> "Groceries",
         mode |-> ExpenseMode_Survival],
        [id |-> "e3", date |-> "2025-11-10", category |-> "Training/Gym",
         amount |-> 50, description |-> "Gym Membership",
         mode |-> ExpenseMode_Growth] >>,
     recurringExpenses |-> <<
        [id |-> "re1", description |-> "Rent", amount |-> 650,
         category |-> "Housing", mode |-> ExpenseMode_Both,
         frequency |-> "monthly", startDate |-> "2025-11"],
        [id |-> "re2", description |-> "Gym Membership", amount |-> 50,
         category |-> "Training/Gym", mode |-> ExpenseMode_Growth,
         frequency |-> "monthly", startDate |-> "2025-11"],
        [id |-> "re3", description |-> "Phone Bill", amount |-> 30,
         category |-> "Personal", mode |-> ExpenseMode_Survival,
         frequency |-> "monthly", startDate |-> "2025-11"] >>,
     debts |-> <<
        [id |-> "d1", name |-> "Student Loan", originalAmount |-> 5000,
         currentBalance |-> 4800, interestRate |-> 55, minimumPayment |-> 100],
        [id |-> "d2", name |-> "Credit Card", originalAmount |-> 2000,
         currentBalance |-> 1200, interestRate |-> 199,
         minimumPayment |-> 50] >>,
     income |-> <<
        [id |-> "i1", date |-> "2025-11-15", source |-> "Consulting",
         amount |-> 1200, description |-> "Project Alpha"],
        [id |-> "i2", date |-> "2025-11-28", source |-> "Newsletter",
         amount |-> 50, description |-> "November Payout"],
        [id |-> "i3", date |-> "2025-12-15", source |-> "Consulting",
         amount |-> 1500, description |-> "Project Bravo"] >>,
     assets |-> <<
        [id |-> "a1", name |-> "Emergency Fund", category |-> "Emergency Fund",
         amountInvested |-> 3000, currentValue |-> 3000, date |-> "2024-01-01"],
        [id |-> "a2", name |-> "Savings Account", category |-> "Savings",
         amountInvested |-> 500, currentValue |-> 500, date |-> "2024-01-01"],
        [id |-> "a3", name |-> "Bitcoin", category |-> "Crypto",
         amountInvested |-> 1000, currentValue |-> 1500, date |-> "2023-06-15"],
        [id |-> "a4", name |-> "VWCE ETF", category |-> "Stocks/ETFs",
         amountInvested |-> 800, currentValue |-> 950,
         date |-> "2023-08-20"] >>,
     incomeGoals |->
        [i \in 1..14 |->
            [id |-> "ig" \o ToString(i), month |-> months[i],
             amount |-> incomeGoalAmounts[i]]],
     expensePlans |->
        [i \in 1..14 |->
            [id |-> "eps" \o ToString(i - 1), month |-> months[i],
             mode |-> ExpensePlanMode_Survival, amount |-> 800]]
        \o
        [i \in 1..14 |->
            [id |-> "epg" \o ToString(i - 1), month |-> months[i],
             mode |-> ExpensePlanMode_Growth, amount |-> 1500]],
     purchases |-> <<
        [id |-> "p1", name |-> "New Standing Desk", cost |-> 450,
         category |-> "Business Expenses",
         justification |-> "Improve ergonomics and productivity.",
         status |-> "Considering", dateAdded |-> "2025-11-10"] >>]

\* --------------------------------------------------------------- reducer

\* Mutant: the payload merged over the current aggregate.
SetState_OverCurrent(s, payload) ==
    [k \in (DOMAIN s) \cup (DOMAIN payload) |->
        IF k \in DOMAIN payload THEN payload[k] ELSE s[k]]

\* case 'SET_STATE': { ...initialState, ...action.payload }; the current
\* aggregate s is in scope and not used.
SetState(s, payload) ==
    [k \in (DOMAIN initialState) \cup (DOMAIN payload) |->
        IF k \in DOMAIN payload THEN payload[k] ELSE initialState[k]]

\* [...xs, payload]
AddTo(s, coll, payload) == [s EXCEPT ![coll] = Append(@, payload)]

\* Mutant: an update that inserts the payload when no record has its id.
UpdateIn_Upsert(s, coll, payload) ==
    IF payload.id \in Ids(s[coll])
    THEN [s EXCEPT ![coll] =
            Map(@, LAMBDA x : IF x.id = payload.id THEN payload ELSE x)]
    ELSE [s EXCEPT ![coll] = Append(@, payload)]

\* xs.map(x => x.id === payload.id ? payload : x)
UpdateIn(s, coll, payload) ==
    [s EXCEPT ![coll] =
        Map(@, LAMBDA x : IF x.id = payload.id THEN payload ELSE x)]

\* Mutant: deleting a recurring template takes its logged expenses along.
DeleteFrom_Cascade(s, coll, payload) ==
    IF coll = "recurringExpenses"
    THEN [s EXCEPT
            !.recurringExpenses = SelectSeq(@, LAMBDA x : x.id # payload.id),
            !.expenses = SelectSeq(@, LAMBDA e :
                \/ Len(e.id) < Len("logged-" \o payload.id \o "-")
                \/ SubSeq(e.id, 1, Len("logged-" \o payload.id \o "-"))
                        # "logged-" \o payload.id \o "-")]
    ELSE [s EXCEPT ![coll] = SelectSeq(@, LAMBDA x : x.id # payload.id)]

RECURSIVE DropFirst(_, _)
DropFirst(records, id) ==
    IF records = <<>> THEN records
    ELSE IF Head(records).id = id THEN Tail(records)
    ELSE <<Head(records)>> \o DropFirst(Tail(records), id)

\* Mutant: a delete that removes the first record with the id only.
DeleteFrom_FirstOnly(s, coll, payload) ==
    [s EXCEPT ![coll] = DropFirst(@, payload.id)]

\* xs.filter(x => x.id !== payload.id)
DeleteFrom(s, coll, payload) ==
    [s EXCEPT ![coll] = SelectSeq(@, LAMBDA x : x.id # payload.id)]

\* case 'UPDATE_PURCHASE_STATUS'
UpdatePurchaseStatus(s, payload) ==
    [s EXCEPT !.purchases =
        Map(@, LAMBDA p :
            IF p.id = payload.id
            THEN [p EXCEPT !.status = payload.status] ELSE p)]

\* Mutant: the logged id names the month and not the template.
LoggedExpenseId_MonthOnly(re, month) == "logged-" \o month

\* Mutant: the month before the template id.
LoggedExpenseId_MonthFirst(re, month) == "logged-" \o month \o "-" \o re.id

\* `logged-${re.id}-${month}`
LoggedExpenseId(re, month) == "logged-" \o re.id \o "-" \o month

\* Mutant: the logged expense dated by the template's start month.
LoggedExpense_StartDated(re, month) ==
    [id |-> LoggedExpenseId(re, month),
     date |-> re.startDate \o "-01",
     category |-> re.category,
     amount |-> re.amount,
     description |-> re.description \o " (Recurring)",
     mode |-> re.mode]

\* The expense pushed for one recurring template.
LoggedExpense(re, month) ==
    [id |-> LoggedExpenseId(re, month),
     date |-> month \o "-01",
     category |-> re.category,
     amount |-> re.amount,
     description |-> re.description \o " (Recurring)",
     mode |-> re.mode]

\* Mutant: every applicable template is logged, whether or not its logged
\* expense exists already.
LogRecurring_NoIdCheck(s, payload) ==
    LET month == payload.month
        applicableRecurring ==
            SelectSeq(s.recurringExpenses,
                LAMBDA re : DateLeq(ParseMonthStart(re.startDate),
                                    ParseMonthStart(month)))
        newExpensesToAdd ==
            Map(applicableRecurring, LAMBDA re : LoggedExpense(re, month))
    IN  IF Len(newExpensesToAdd) = 0
        THEN s
        ELSE [s EXCEPT !.expenses = @ \o newExpensesToAdd]

\* case 'LOG_RECURRING_EXPENSES_FOR_MONTH'
LogRecurringExpensesForMonth(s, payload) ==
    LET month == payload.month
        applicableRecurring ==
            SelectSeq(s.recurringExpenses,
                LAMBDA re : DateLeq(ParseMonthStart(re.startDate),
                                    ParseMonthStart(month)))
        existingExpenseIds == Ids(s.expenses)
        toLog ==
            SelectSeq(applicableRecurring,
                LAMBDA re : LoggedExpenseId(re, month) \notin existingExpenseIds)
        newExpensesToAdd == Map(toLog, LAMBDA re : LoggedExpense(re, month))
    IN  IF Len(newExpensesToAdd) = 0
        THEN s
        ELSE [s EXCEPT !.expenses = @ \o newExpensesToAdd]

\* Mutant: the goal is appended without looking for the month.
UpdateIncomeGoal_AlwaysAppend(s, payload, clock) ==
    [s EXCEPT !.incomeGoals =
        Append(@, [id |-> "ig-" \o ToString(clock), month |-> payload.month,
                   amount |-> payload.amount])]

\* case 'UPDATE_INCOME_GOAL'; clock is the value Date.now() returns.
UpdateIncomeGoal(s, payload, clock) ==
    LET month == payload.month
        amount == payload.amount
        goalExists == Some(s.incomeGoals, LAMBDA g : g.month = month)
    IN  IF goalExists
        THEN [s EXCEPT !.incomeGoals =
                Map(@, LAMBDA g :
                    IF g.month = month THEN [g EXCEPT !.amount = amount] ELSE g)]
        ELSE [s EXCEPT !.incomeGoals =
                Append(@, [id |-> "ig-" \o ToString(clock), month |-> month,
                           amount |-> amount])]

\* Mutant: the plan's key is the month alone.
UpdateExpensePlan_MonthOnly(s, payload, clock) ==
    LET month == payload.month
        mode == payload.mode
        amount == payload.amount
        planExists == Some(s.expensePlans, LAMBDA p : p.month = month)
    IN  IF planExists
        THEN [s EXCEPT !.expensePlans =
                Map(@, LAMBDA p :
                    IF p.month = month
                    THEN [p EXCEPT !.amount = amount] ELSE p)]
        ELSE [s EXCEPT !.expensePlans =
                Append(@, [id |-> "ep-" \o ToString(clock), month |-> month,
                           mode |-> mode, amount |-> amount])]

\* Mutant: the existence test compares the amount as well as the key.
UpdateExpensePlan_KeyWithAmount(s, payload, clock) ==
    LET month == payload.month
        mode == payload.mode
        amount == payload.amount
        planExists ==
            Some(s.expensePlans,
                LAMBDA p : p.month = month /\ p.mode = mode /\ p.amount = amount)
    IN  IF planExists
        THEN s
        ELSE [s EXCEPT !.expensePlans =
                Append(@, [id |-> "ep-" \o ToString(clock), month |-> month,
                           mode |-> mode, amount |-> amount])]

\* case 'UPDATE_EXPENSE_PLAN'; clock is the value Date.now() returns.
UpdateExpensePlan(s, payload, clock) ==
    LET month == payload.month
        mode == payload.mode
        amount == payload.amount
        planExists ==
            Some(s.expensePlans, LAMBDA p : p.month = month /\ p.mode = mode)
    IN  IF planExists
        THEN [s EXCEPT !.expensePlans =
                Map(@, LAMBDA p :
                    IF p.month = month /\ p.mode = mode
                    THEN [p EXCEPT !.amount = amount] ELSE p)]
        ELSE [s EXCEPT !.expensePlans =
                Append(@, [id |-> "ep-" \o ToString(clock), month |-> month,
                           mode |-> mode, amount |-> amount])]

\* case 'UPDATE_DEBT_BALANCE'
UpdateDebtBalance(s, payload) ==
    [s EXCEPT !.debts =
        Map(@, LAMBDA d :
            IF d.id = payload.id
            THEN [d EXCEPT !.currentBalance = payload.newBalance] ELSE d)]

\* case 'UPDATE_ASSET_VALUE'
UpdateAssetValue(s, payload) ==
    [s EXCEPT !.assets =
        Map(@, LAMBDA a :
            IF a.id = payload.id
            THEN [a EXCEPT !.currentValue = payload.newValue] ELSE a)]

\* The reducer: (state, action) and the clock its insert branches read.
financialReducer(s, action, clock) ==
    LET t == action.type
        p == action.payload
    IN  CASE t = "SET_STATE" -> SetState(s, p)
          [] t = "ADD_EXPENSE" -> AddTo(s, "expenses", p)
          [] t = "UPDATE_EXPENSE" -> UpdateIn(s, "expenses", p)
          [] t = "DELETE_EXPENSE" -> DeleteFrom(s, "expenses", p)
          [] t = "ADD_DEBT" -> AddTo(s, "debts", p)
          [] t = "UPDATE_DEBT" -> UpdateIn(s, "debts", p)
          [] t = "DELETE_DEBT" -> DeleteFrom(s, "debts", p)
          [] t = "ADD_INCOME" -> AddTo(s, "income", p)
          [] t = "UPDATE_INCOME" -> UpdateIn(s, "income", p)
          [] t = "DELETE_INCOME" -> DeleteFrom(s, "income", p)
          [] t = "ADD_ASSET" -> AddTo(s, "assets", p)
          [] t = "ADD_PURCHASE" -> AddTo(s, "purchases", p)
          [] t = "UPDATE_PURCHASE_STATUS" -> UpdatePurchaseStatus(s, p)
          [] t = "ADD_RECURRING_EXPENSE" -> AddTo(s, "recurringExpenses", p)
          [] t = "UPDATE_RECURRING_EXPENSE" ->
                UpdateIn(s, "recurringExpenses", p)
          [] t = "DELETE_RECURRING_EXPENSE" ->
                DeleteFrom(s, "recurringExpenses", p)
          [] t = "LOG_RECURRING_EXPENSES_FOR_MONTH" ->
                LogRecurringExpensesForMonth(s, p)
          [] t = "UPDATE_INCOME_GOAL" -> UpdateIncomeGoal(s, p, clock)
          [] t = "UPDATE_EXPENSE_PLAN" -> UpdateExpensePlan(s, p, clock)
          [] t = "UPDATE_DEBT_BALANCE" -> UpdateDebtBalance(s, p)
          [] t = "UPDATE_ASSET_VALUE" -> UpdateAssetValue(s, p)
          [] OTHER -> s

\* An action record, as handed to dispatch.
Action(type, payload) == [type |-> type, payload |-> payload]

\* ------------------------------------------------------ number <-> text

RECURSIVE Digits(_)
\* The decimal digits of a non-negative whole number, most significant first.
Digits(n) == IF n < 10 THEN <<n>> ELSE Digits(n \div 10) \o <<n % 10>>

\* Number.prototype.toString / JSON's number text.
NumberToString(n) == Digits(n)

RECURSIVE DigitsValue(_)
DigitsValue(ds) ==
    IF ds = <<>> THEN 0 ELSE DigitsValue(SubSeq(ds, 1, Len(ds) - 1)) * 10 + ds[Len(ds)]

\* parseFloat: NaN for the empty field, the number otherwise.
ParseFloat(text) == IF text = <<>> THEN NaN ELSE DigitsValue(text)

\* ------------------------------------------------------------------ JSON

NumericFields ==
    {"amount", "originalAmount", "currentBalance", "interestRate",
     "minimumPayment", "amountInvested", "currentValue", "cost"}

JsonNumber(n) == [j |-> "number", text |-> NumberToString(n)]
JsonString(str) == [j |-> "string", text |-> str]

\* The fields whose value is itself an object.
ObjectFields == {"assetData", "asset"}

RECURSIVE JsonOfRecord(_)
JsonOfRecord(r) ==
    [j |-> "object",
     members |-> [k \in DOMAIN r |->
        IF k \in NumericFields THEN JsonNumber(r[k])
        ELSE IF k \in ObjectFields THEN JsonOfRecord(r[k])
        ELSE JsonString(r[k])]]

JsonOfCollection(seq) == [j |-> "array", items |-> Map(seq, JsonOfRecord)]

\* JSON.stringify(state, null, 2): the document, as its syntax tree.
JsonStringify(s) ==
    [j |-> "object", members |-> [k \in DOMAIN s |-> JsonOfCollection(s[k])]]

RECURSIVE JsonValue(_)
\* The value JSON.parse builds from a well-formed document.
JsonValue(doc) ==
    CASE doc.j = "number" -> ParseFloat(doc.text)
      [] doc.j = "string" -> doc.text
      [] doc.j = "array" -> [i \in 1..Len(doc.items) |-> JsonValue(doc.items[i])]
      [] doc.j = "object" ->
            [k \in DOMAIN doc.members |-> JsonValue(doc.members[k])]

\* JSON.parse throws on a text that is no JSON document.
JsonParses(doc) == doc.j \in {"number", "string", "array", "object"}

\* Mutant: an empty array counts as missing.
Truthy_NonEmpty(doc, key) ==
    /\ doc.j = "object"
    /\ key \in DOMAIN doc.members
    /\ LET v == doc.members[key]
       IN  \/ v.j = "array" /\ v.items # <<>>
           \/ v.j = "object"
           \/ v.j = "number" /\ ParseFloat(v.text) # 0
           \/ v.j = "string" /\ v.text # ""

\* The truthiness of json[key] for a parsed document.
Truthy(doc, key) ==
    /\ doc.j = "object"
    /\ key \in DOMAIN doc.members
    /\ LET v == doc.members[key]
       IN  \/ v.j \in {"array", "object"}
           \/ v.j = "number" /\ ParseFloat(v.text) # 0
           \/ v.j = "string" /\ v.text # ""

\* json.expenses && json.debts && json.income && json.assets
BasicValidation(doc) ==
    /\ Truthy(doc, "expenses")
    /\ Truthy(doc, "debts")
    /\ Truthy(doc, "income")
    /\ Truthy(doc, "assets")

NoFile == [j |-> "none"]

EmptyArray == [j |-> "array", items |-> <<>>]

\* Files a user may pick in the import dialog besides an exported backup.
GarbageDoc == [j |-> "garbage"]

DocMissingIncome ==
    [j |-> "object",
     members |-> [k \in {"expenses", "debts", "assets"} |-> EmptyArray]]

DocRequiredOnly ==
    [j |-> "object",
     members |->
        [k \in {"expenses", "debts", "income", "assets"} |-> EmptyArray]]

DocAllEmpty == [j |-> "object", members |-> [k \in CollectionNames |-> EmptyArray]]

ImportDocs == {GarbageDoc, DocMissingIncome, DocRequiredOnly, DocAllEmpty}

\* -------------------------------------------------------- local storage

\* useLocalStorage(key, initialValue): the value first returned is the parsed
\* document under the key, or initialValue when the key holds nothing.
UseLocalStorageInitial(doc, initialValue) ==
    IF doc = NoFile THEN initialValue ELSE JsonValue(doc)

\* setStoredState(state): the document under 'financialData' is overwritten.
SetStoredState(store, s) == [store EXCEPT !.financialData = JsonStringify(s)]

\* A browser in which the application has run once and no key was saved.
FreshStorage ==
    [financialData |-> JsonStringify(initialState), geminiApiKey |-> NoFile]

\* ------------------------------------------------------------ debt view

RECURSIVE InsertByRate(_, _)
\* x placed behind every record whose interestRate is not lower.
InsertByRate(sorted, x) ==
    IF sorted = <<>> THEN <<x>>
    ELSE IF Head(sorted).interestRate >= x.interestRate
         THEN <<Head(sorted)>> \o InsertByRate(Tail(sorted), x)
         ELSE <<x>> \o sorted

RECURSIVE SortDebts(_)
\* debts.sort((a, b) => b.interestRate - a.interestRate): a stable sort,
\* highest rate first.
SortDebts(debts) ==
    IF debts = <<>> THEN <<>>
    ELSE InsertByRate(SortDebts(SubSeq(debts, 1, Len(debts) - 1)),
                      debts[Len(debts)])

\* The aggregate after DebtDashboard rendered it: Array.prototype.sort
\* reorders state.debts itself.
RenderedByDebtDashboard(s) == [s EXCEPT !.debts = SortDebts(@)]

\* ------------------------------------------------------ derived metrics

RECURSIVE Reduce0(_, _)
\* xs.reduce((sum, x) => sum + f(x), 0), over the values f(x) already taken.
Reduce0(values, sum) ==
    IF values = <<>> THEN sum ELSE Reduce0(Tail(values), sum + Head(values))

\* Mutant: the liabilities are the amounts originally owed.
NetWorthTracker_OriginalAmounts(s) ==
    LET totalAssets == Reduce0(Map(s.assets, LAMBDA a : a.currentValue), 0)
        totalDebts == Reduce0(Map(s.debts, LAMBDA d : d.originalAmount), 0)
    IN  [totalAssets |-> totalAssets, totalDebts |-> totalDebts,
         netWorth |-> totalAssets - totalDebts]

\* The useMemo of NetWorthTracker.
NetWorthTracker(s) ==
    LET totalAssets == Reduce0(Map(s.assets, LAMBDA a : a.currentValue), 0)
        totalDebts == Reduce0(Map(s.debts, LAMBDA d : d.currentBalance), 0)
    IN  [totalAssets |-> totalAssets, totalDebts |-> totalDebts,
         netWorth |-> totalAssets - totalDebts]

\* The netWorth useMemo of GoalProgress.
GoalProgress(s) ==
    LET totalAssets == Reduce0(Map(s.assets, LAMBDA a : a.currentValue), 0)
        totalDebts == Reduce0(Map(s.debts, LAMBDA d : d.currentBalance), 0)
    IN  totalAssets - totalDebts

\* A JavaScript number that is a ratio of whole numbers, or one of the
\* values a division by zero gives.
Finite(num, den) == [kind |-> "finite", num |-> num, den |-> den]

\* a / b
Divide(a, b) ==
    IF b # 0 THEN Finite(a, b)
    ELSE IF a = 0 THEN [kind |-> "NaN"]
         ELSE IF a > 0 THEN [kind |-> "Infinity"]
              ELSE [kind |-> "-Infinity"]

\* x * n for a whole number n > 0
Times(x, n) == IF x.kind = "finite" THEN Finite(x.num * n, x.den) ELSE x

\* Mutant: the division is made whatever the amount invested.
Roi_NoZeroGuard(asset) ==
    Times(Divide(asset.currentValue - asset.amountInvested,
                 asset.amountInvested), 100)

\* The roi useMemo of AssetListItem.
Roi(asset) ==
    IF asset.amountInvested = 0 THEN Finite(0, 1)
    ELSE Times(Divide(asset.currentValue - asset.amountInvested,
                      asset.amountInvested), 100)

\* Mutant: a date belongs to a month key when the years agree.
StartsWith_YearOnly(str, key) == SubSeq(str, 1, 4) = SubSeq(key, 1, 4)

\* String.prototype.startsWith
StartsWith(str, key) ==
    Len(key) <= Len(str) /\ SubSeq(str, 1, Len(key)) = key

\* records.filter(r => r.date.startsWith(key)).reduce((sum, r) => sum +
\* r.amount, 0): the actual of ExpenseTracker and of IncomeTracker.
MonthlyTotal(records, key) ==
    Reduce0(Map(SelectSeq(records, LAMBDA r : StartsWith(r.date, key)),
                LAMBDA r : r.amount), 0)

\* The 14 month keys of ExpenseTracker, from November 2024 on.
expenseMonths ==
    [i \in 1..14 |->
        MonthKey(2024 + ((10 + (i - 1)) \div 12), ((10 + (i - 1)) % 12) + 1)]

\* The monthlyData of a tracker: the actual of each of its months.
MonthlyData(records, monthKeys) ==
    [i \in 1..Len(monthKeys) |->
        [monthKey |-> monthKeys[i],
         Actual |-> MonthlyTotal(records, monthKeys[i])]]

\* ExpenseTracker shows the expenses over its months, IncomeTracker the
\* income over the months from November 2025 on.
ExpenseTrackerData(s) == MonthlyData(s.expenses, expenseMonths)
IncomeTrackerData(s) == MonthlyData(s.income, months)

\* The useMemo of MonthlySummary, with its fixed month.
MonthlySummary(s) ==
    LET currentMonthKey == "2025-11"
        income == MonthlyTotal(s.income, currentMonthKey)
        expenses == MonthlyTotal(s.expenses, currentMonthKey)
    IN  [income |-> income, expenses |-> expenses,
         netFlow |-> income - expenses]

RECURSIVE Gcd(_, _)
Gcd(a, b) == IF b = 0 THEN a ELSE Gcd(b, a % b)

Abs(n) == IF n < 0 THEN 0 - n ELSE n

\* The ratio in lowest terms with a positive denominator: two ratios are
\* the same number exactly when their lowest terms are equal.
Lowest(x) ==
    IF x.kind # "finite" THEN x
    ELSE LET g == Gcd(Abs(x.num), Abs(x.den))
             sign == IF x.den < 0 THEN 0 - 1 ELSE 1
         IN  Finite(sign * (x.num \div g), sign * (x.den \div g))

\* 1 - x
OneMinus(x) ==
    CASE x.kind = "finite" -> Finite(x.den - x.num, x.den)
      [] x.kind = "Infinity" -> [kind |-> "-Infinity"]
      [] x.kind = "-Infinity" -> [kind |-> "Infinity"]
      [] OTHER -> x

\* x + y
Plus(x, y) ==
    IF x.kind = "finite" /\ y.kind = "finite"
    THEN LET a == Lowest(x)
             b == Lowest(y)
         IN  Lowest(Finite(a.num * b.den + b.num * a.den, a.den * b.den))
    ELSE IF x.kind = "finite" THEN y
    ELSE IF y.kind = "finite" \/ y.kind = x.kind THEN x
    ELSE [kind |-> "NaN"]

\* The progress of DebtItem.
Progress(debt) ==
    Times(OneMinus(Divide(debt.currentBalance, debt.originalAmount)), 100)

RECURSIVE PlusAll(_)
PlusAll(values) ==
    IF values = <<>> THEN Finite(0, 1)
    ELSE Plus(Head(values), PlusAll(Tail(values)))

\* Mutant: the overall progress is the average of the debts' progress.
OverallProgress_Average(debts) ==
    IF debts = <<>> THEN Finite(0, 1)
    ELSE LET total == PlusAll(Map(debts, Progress))
         IN  IF total.kind = "finite"
             THEN Lowest(Finite(total.num, total.den * Len(debts)))
             ELSE total

\* The overallProgress of DebtDashboard's useMemo.
OverallProgress(debts) ==
    LET originalTotal == Reduce0(Map(debts, LAMBDA d : d.originalAmount), 0)
        currentTotal == Reduce0(Map(debts, LAMBDA d : d.currentBalance), 0)
    IN  IF originalTotal > 0
        THEN Times(OneMinus(Divide(currentTotal, originalTotal)), 100)
        ELSE Finite(0, 1)

\* -------------------------------------------------- insight collaborator

\* Texts are sequences of words; includes() looks for a run of words.
Includes(text, words) ==
    \E i \in 1..(Len(text) - Len(words) + 1) :
        SubSeq(text, i, i + Len(words) - 1) = words

\* String.prototype.toLowerCase, word by word.
LowerWord(w) ==
    CASE w = "API" -> "api"
      [] w = "An" -> "an"
      [] w = "Failed" -> "failed"
      [] w = "Your" -> "your"
      [] w = "Cannot" -> "cannot"
      [] w = "Error" -> "error"
      [] OTHER -> w

ToLowerCase(text) == [i \in 1..Len(text) |-> LowerWord(text[i])]

\* String.prototype.trim on a stored key.
Trim(str) == IF str \in {"", " "} THEN "" ELSE str

\* The message of the Error getApiKey throws.
MissingKeyMessage ==
    <<"API", "key", "not", "found.", "Please", "go", "to", "the", "Settings",
      "page", "to", "configure", "your", "Gemini", "API", "key.">>

InsightFallbackMessage ==
    <<"An", "unexpected", "error", "occurred", "while", "generating", "your",
      "financial", "insight.">>

RundownFallbackMessage ==
    <<"An", "unexpected", "error", "occurred", "while", "generating", "your",
      "financial", "rundown.">>

\* The message of the TypeError raised by reading a property of undefined.
UndefinedTextMessage ==
    <<"Cannot", "read", "properties", "of", "undefined">>

StringValue(text) == [t |-> "string", v |-> text]

UndefinedValue == [t |-> "undefined"]

\* getApiKey: the build's key, else the key the settings page stored, else
\* an Error.
getApiKey(envApiKey, store) ==
    IF envApiKey # ""
    THEN [ok |-> TRUE, key |-> envApiKey]
    ELSE IF /\ store.geminiApiKey # NoFile
            /\ store.geminiApiKey.j = "string"
            /\ Trim(JsonValue(store.geminiApiKey)) # ""
         THEN [ok |-> TRUE, key |-> JsonValue(store.geminiApiKey)]
         ELSE [ok |-> FALSE, message |-> MissingKeyMessage]

\* What ai.models.generateContent can do: answer with a text (possibly
\* empty), answer without a text, reject with an Error (network failure,
\* service error), or reject with a value that is no Error.
ServiceOutcomes ==
    {[kind |-> "text", text |-> <<"Your", "savings", "rate", "is", "strong.">>],
     [kind |-> "text", text |-> <<>>],
     [kind |-> "notext"],
     [kind |-> "error", message |-> <<"Failed", "to", "fetch">>],
     [kind |-> "error", message |-> <<"Error", "503", "service", "unavailable">>],
     [kind |-> "other"]}

\* The value the promise of getFinancialInsights resolves with.
getFinancialInsights(credential, outcome) ==
    IF ~credential.ok THEN StringValue(credential.message)
    ELSE CASE outcome.kind = "text" -> StringValue(outcome.text)
           [] outcome.kind = "notext" -> StringValue(UndefinedTextMessage)
           [] outcome.kind = "error" -> StringValue(outcome.message)
           [] outcome.kind = "other" -> StringValue(InsightFallbackMessage)

\* The value the promise of getFinancialRundown resolves with.
getFinancialRundown(credential, outcome) ==
    IF ~credential.ok THEN StringValue(credential.message)
    ELSE CASE outcome.kind = "text" -> StringValue(outcome.text)
           [] outcome.kind = "notext" -> UndefinedValue
           [] outcome.kind = "error" -> StringValue(outcome.message)
           [] outcome.kind = "other" -> StringValue(RundownFallbackMessage)

InsightComponents == {"Dashboard.InsightsEngine", "part_003.InsightsEngine"}

RundownComponents == {"Dashboard.RundownEngine", "types.Rundown"}

Components == InsightComponents \cup RundownComponents

\* The months field starts at 24.
DefaultMonths == 24

\* useState initial values of a component; requests holds the credential
\* lookups of the calls still awaited, horizon the months argument of the
\* last call, returned the value the last awaited promise resolved with.
EngineIdle ==
    [text |-> <<>>, isLoading |-> FALSE, error |-> <<>>,
     months |-> DefaultMonths, requests |-> <<>>, horizon |-> <<>>,
     returned |-> <<>>]

EnginesIdle == [c \in Components |-> EngineIdle]

\* The branch of the component that decides where a resolved text goes:
\* TRUE when the component treats it as an error.
TreatedAsError(c, text) ==
    CASE c = "Dashboard.InsightsEngine" -> FALSE
      [] c = "part_003.InsightsEngine" ->
            \/ Includes(text, <<"Could", "not">>)
            \/ Includes(text, <<"unexpected", "error">>)
      [] c = "Dashboard.RundownEngine" -> Includes(text, <<"API", "key">>)
      [] c = "types.Rundown" ->
            \/ Includes(ToLowerCase(text), <<"error">>)
            \/ Includes(ToLowerCase(text), <<"api", "key">>)

\* The message a component's own catch branch sets.
CatchMessage(c) ==
    CASE c = "Dashboard.InsightsEngine" ->
            <<"Could", "not", "fetch", "insights.", "Please", "check", "API",
              "key.">>
      [] c = "part_003.InsightsEngine" ->
            <<"An", "unknown", "error", "occurred", "while", "fetching",
              "insights.">>
      [] OTHER ->
            <<"An", "unexpected", "error", "occurred", "while", "generating",
              "the", "rundown.">>

\* The component's state once the awaited promise resolved with result.
Settled(c, e, result) ==
    LET threw == result.t # "string" /\ c \in RundownComponents
        \* result.includes(...) on undefined raises inside the try block
        asError == ~threw /\ TreatedAsError(c, result.v)
    IN  [e EXCEPT !.isLoading = FALSE,
                  !.requests = Tail(@),
                  !.returned = <<result>>,
                  !.error = IF threw THEN CatchMessage(c)
                            ELSE IF asError THEN result.v ELSE @,
                  !.text = IF ~threw /\ ~asError THEN result.v ELSE @]

\* Mutant: the handler starts the call without raising the loading flag.
Started_NoLoadingFlag(e, credential) ==
    [e EXCEPT !.error = <<>>, !.text = <<>>,
              !.requests = Append(@, credential),
              !.horizon = <<e.months>>, !.returned = <<>>]

\* The component's state once its handler ran up to the await.
Started(e, credential) ==
    [e EXCEPT !.isLoading = TRUE, !.error = <<>>, !.text = <<>>,
              !.requests = Append(@, credential),
              !.horizon = <<e.months>>, !.returned = <<>>]

\* parseInt(e.target.value, 10) for what a number field can hold.
ParseInt(text) == ParseFloat(text)

\* Values typed into the months field.
MonthsTyped == {<<1, 2>>, <<1, 0, 0>>, <<3>>, <<>>}

\* Keys typed into the settings page.
ApiKeysTyped == {"", " ", "user-key"}

\* ------------------------------------------------------- handler inputs

\* The id of a record whose edit form or card is still open after the record
\* itself was deleted.
StaleId == "gone"

\* The ids a handler acting on one record of coll can carry: the newest
\* record's, or a stale one.
IdChoices(coll) == (IF coll = <<>> THEN {} ELSE {coll[Len(coll)].id}) \cup {StaleId}

\* new Date().toISOString().split('T')[0]; the day does not change within
\* the few clock ticks of a run.
Today == "2025-12-15"

ExpenseFormData ==
    [date |-> "2025-12-03", category |-> "Food", amount |-> 20,
     description |-> "Lunch", mode |-> ExpenseMode_Growth]

\* The start months the recurring form can submit; where the browser has no
\* month picker the required field is a text field and takes any text.
StartDates == {"2025-10", "2026-01", "soon"}

RecurringFormData(startDate) ==
    [description |-> "Insurance", amount |-> 40, category |-> "Health",
     mode |-> ExpenseMode_Survival, frequency |-> "monthly",
     startDate |-> startDate]

DebtFormData ==
    [name |-> "Car Loan", originalAmount |-> 3000, currentBalance |-> 2500,
     interestRate |-> 70, minimumPayment |-> 80]

IncomeFormData ==
    [date |-> "2025-12-20", source |-> "Speaking", amount |-> 300,
     description |-> "Talk"]

PurchaseCosts == {100, 200}

PurchaseFormData(cost) ==
    [name |-> "Monitor", cost |-> cost,
     category |-> (IF cost = 100 THEN "Personal" ELSE "Other"),
     justification |-> "Second screen."]

NewAsset ==
    [id |-> "a5", name |-> "Gold", category |-> "Savings",
     amountInvested |-> 200, currentValue |-> 210, date |-> "2025-12-01"]

\* { id, ...data }
WithId(id, data) ==
    [k \in {"id"} \cup DOMAIN data |-> IF k = "id" THEN id ELSE data[k]]

\* The months offered by handleLogRecurring's buttons.
LogMonths == {"2025-10", "2025-12"}

\* The months whose goal field, respectively plan field, gets edited.
GoalEditMonths == <<"2025-11", "2025-12">>
PlanEditMonths == <<"2025-10", "2025-11">>

\* What a user types into the month fields before saving: one field set to
\* a number or cleared, or two fields set.
FieldEdits(ms) ==
    {<< <<ms[i], t>> >> : i \in 1..Len(ms), t \in {NumberToString(1600), <<>>}}
    \cup {<< <<ms[1], NumberToString(1600)>>, <<ms[2], NumberToString(2100)>> >>}

ViewModes == {ExpenseMode_Survival, ExpenseMode_Growth}

\* ------------------------------------------------------------- dispatch
\* Two handler events are user gestures more than a millisecond apart, so
\* the clock advances from one event to the next; the dispatches of a single
\* handler run within one tick.

NoAction == [type |-> "none", payload |-> <<>>]

\* A fresh installation: the reducer starts from the seed dataset.
InitWith(n) ==
    /\ state = initialState
    /\ now = 0
    /\ file = NoFile
    /\ last = NoAction
    /\ budget = n
    /\ storage = FreshStorage
    /\ mounted = TRUE
    /\ engines = EnginesIdle
    /\ env = ""

Init == InitWith(MaxStepsWide)

InitView == InitWith(MaxSteps)

\* What a handler event leaves alone besides the aggregate: the provider
\* stays mounted, and the collaborator's components and the build's key are
\* not involved.
appVars == <<mounted, engines, env>>

\* One handler event of a mounted application that puts the aggregate next
\* in place: the event spends budget, the clock moves on, and the effect
\* of FinancialProvider that follows the render persists the aggregate.
Commit(next, action) ==
    /\ mounted
    /\ budget > 0
    /\ state' = next
    /\ storage' = SetStoredState(storage, next)
    /\ last' = action
    /\ budget' = budget - 1
    /\ now' = now + 1
    /\ UNCHANGED <<file, appVars>>

\* The action types the reducer has a case for.
HandledTypes ==
    {"SET_STATE", "ADD_EXPENSE", "UPDATE_EXPENSE", "DELETE_EXPENSE",
     "ADD_DEBT", "UPDATE_DEBT", "DELETE_DEBT",
     "ADD_INCOME", "UPDATE_INCOME", "DELETE_INCOME",
     "ADD_ASSET", "ADD_PURCHASE", "UPDATE_PURCHASE_STATUS",
     "ADD_RECURRING_EXPENSE", "UPDATE_RECURRING_EXPENSE",
     "DELETE_RECURRING_EXPENSE", "LOG_RECURRING_EXPENSES_FOR_MONTH",
     "UPDATE_INCOME_GOAL", "UPDATE_EXPENSE_PLAN",
     "UPDATE_DEBT_BALANCE", "UPDATE_ASSET_VALUE"}

ReturnsInput_Never(s, action) == FALSE

\* The reducer hands back the very object it was given (return state): in
\* the default branch, and in the log branch that found nothing to add.
\* Every other branch builds a new object, equal or not.
ReturnsInput(s, action) ==
    \/ action.type \notin HandledTypes
    \/ /\ action.type = "LOG_RECURRING_EXPENSES_FOR_MONTH"
       /\ LogRecurringExpensesForMonth(s, action.payload) = s

\* One handler event whose dispatch gave the aggregate back: the state
\* object is the same, so the effect with [state] as dependency does not
\* run and nothing is written.
CommitKept(action) ==
    /\ mounted
    /\ budget > 0
    /\ last' = action
    /\ budget' = budget - 1
    /\ now' = now + 1
    /\ UNCHANGED <<state, storage, file, appVars>>

\* dispatch(action) from a handler that does nothing else.
Dispatch(action) ==
    IF ReturnsInput(state, action)
    THEN CommitKept(action)
    ELSE Commit(financialReducer(state, action, now), action)

\* dispatch(action) from a handler of DebtDashboard: the view sorted the
\* debts when it was opened and sorts them again in the render that follows
\* the dispatch, before the aggregate is persisted.
DispatchFromDebtView(action) ==
    Commit(RenderedByDebtDashboard(
               financialReducer(RenderedByDebtDashboard(state), action, now)),
           action)

\* A handler event that dispatches nothing.
NoDispatch ==
    /\ mounted
    /\ budget > 0
    /\ budget' = budget - 1
    /\ now' = now + 1
    /\ UNCHANGED <<state, file, last, storage, appVars>>

\* ------------------------------------------------------------- expenses

handleSaveExpense ==
    Dispatch(Action("ADD_EXPENSE",
        WithId("e-" \o ToString(now), ExpenseFormData)))

handleUpdateExpense ==
    \E id \in IdChoices(state.expenses) :
        Dispatch(Action("UPDATE_EXPENSE", WithId(id, ExpenseFormData)))

handleDeleteExpense ==
    \E id \in IdChoices(state.expenses) :
        Dispatch(Action("DELETE_EXPENSE", [id |-> id]))

handleSaveRecurringExpense ==
    \E sd \in StartDates :
        Dispatch(Action("ADD_RECURRING_EXPENSE",
            WithId("re-" \o ToString(now), RecurringFormData(sd))))

handleUpdateRecurringExpense ==
    \E id \in IdChoices(state.recurringExpenses) :
        Dispatch(Action("UPDATE_RECURRING_EXPENSE",
            WithId(id, RecurringFormData("2025-10"))))

handleDeleteRecurring ==
    \E id \in IdChoices(state.recurringExpenses) :
        Dispatch(Action("DELETE_RECURRING_EXPENSE", [id |-> id]))

handleLogRecurring ==
    \E monthKey \in LogMonths :
        Dispatch(Action("LOG_RECURRING_EXPENSES_FOR_MONTH", [month |-> monthKey]))

\* ------------------------------------------------------ debts and income

handleSaveDebt ==
    DispatchFromDebtView(
        Action("ADD_DEBT", WithId("d-" \o ToString(now), DebtFormData)))

handleUpdateDebt ==
    \E id \in IdChoices(state.debts) :
        DispatchFromDebtView(Action("UPDATE_DEBT", WithId(id, DebtFormData)))

handleDeleteDebt ==
    \E id \in IdChoices(state.debts) :
        DispatchFromDebtView(Action("DELETE_DEBT", [id |-> id]))

\* Opening the debt view: DebtDashboard renders, no action is dispatched and
\* no effect of FinancialProvider runs.
RenderDebtDashboard ==
    /\ mounted
    /\ state' = RenderedByDebtDashboard(state)
    /\ UNCHANGED <<now, file, last, budget, storage, appVars>>

DispatchUpdateDebtBalance ==
    \E id \in IdChoices(state.debts) :
        Dispatch(Action("UPDATE_DEBT_BALANCE", [id |-> id, newBalance |-> 1000]))

handleSaveIncome ==
    Dispatch(Action("ADD_INCOME", WithId("i-" \o ToString(now), IncomeFormData)))

handleUpdateIncome ==
    \E id \in IdChoices(state.income) :
        Dispatch(Action("UPDATE_INCOME", WithId(id, IncomeFormData)))

handleDeleteIncome ==
    \E id \in IdChoices(state.income) :
        Dispatch(Action("DELETE_INCOME", [id |-> id]))

\* ---------------------------------------------------------------- assets

\* Assets the form can produce: amounts of 0 pass its isNaN checks.
NewAssets ==
    {NewAsset,
     [NewAsset EXCEPT !.id = "a6", !.amountInvested = 0],
     [NewAsset EXCEPT !.id = "a7", !.amountInvested = 0, !.currentValue = 0]}

DispatchAddAsset == \E asset \in NewAssets : Dispatch(Action("ADD_ASSET", asset))

DispatchUpdateAssetValue ==
    \E id \in IdChoices(state.assets) :
        Dispatch(Action("UPDATE_ASSET_VALUE", [id |-> id, newValue |-> 1600]))

\* ------------------------------------------------------ investment view

\* The texts the basket's name field can hold when it is saved.
NamesTyped == {"Core", " ", ""}

\* The basket and the asset a card of the investment view stands for.
BasketId == "b1"
AssetIds == {"a1", StaleId}

\* The form's data, an asset without its id.
AssetFormData == [f \in DOMAIN NewAsset \ {"id"} |-> NewAsset[f]]

handleNameSave ==
    \E name \in NamesTyped :
        IF Trim(name) # ""
        THEN Dispatch(Action("UPDATE_BASKET_NAME",
                             [basketId |-> BasketId, name |-> Trim(name)]))
        ELSE NoDispatch

handleDeleteAsset ==
    \E assetId \in AssetIds, confirmed \in BOOLEAN :
        IF confirmed
        THEN Dispatch(Action("DELETE_ASSET",
                             [basketId |-> BasketId, assetId |-> assetId]))
        ELSE NoDispatch

handleSaveAsset ==
    \/ \E assetId \in AssetIds :
          Dispatch(Action("UPDATE_ASSET",
              [basketId |-> BasketId,
               asset |-> WithId(assetId, AssetFormData)]))
    \/ Dispatch(Action("ADD_ASSET",
              [basketId |-> BasketId, assetData |-> AssetFormData]))

\* ------------------------------------------------------------- purchases

handleSavePurchase ==
    \E cost \in PurchaseCosts :
        Dispatch(Action("ADD_PURCHASE",
            [id |-> "p-" \o ToString(now),
             name |-> PurchaseFormData(cost).name,
             cost |-> cost,
             category |-> PurchaseFormData(cost).category,
             justification |-> PurchaseFormData(cost).justification,
             status |-> "Considering",
             dateAdded |-> Today]))

\* purchases.find(p => p.id === purchaseId): the first match, if any.
Find(purchases, purchaseId) ==
    LET hits == SelectSeq(purchases, LAMBDA p : p.id = purchaseId)
    IN  IF hits = <<>> THEN <<>> ELSE <<hits[1]>>

\* Mutant: the expense gets a fixed category, as it gets a fixed mode.
ExpenseFromPurchase_FixedCategory(purchase) ==
    Action("ADD_EXPENSE",
        [id |-> "exp-from-pur-" \o purchase.id,
         date |-> Today,
         category |-> "Other",
         amount |-> purchase.cost,
         description |-> purchase.name,
         mode |-> ExpenseMode_Growth])

\* The ADD_EXPENSE that handleDrop builds from the purchase it found.
ExpenseFromPurchase(purchase) ==
    Action("ADD_EXPENSE",
        [id |-> "exp-from-pur-" \o purchase.id,
         date |-> Today,
         category |-> purchase.category,
         amount |-> purchase.cost,
         description |-> purchase.name,
         mode |-> ExpenseMode_Growth])

\* The actions StatusColumn.handleDrop dispatches, in order, when the card
\* purchaseId is dropped on the column status; windowState is the value of
\* window.__financial_context_state at that moment.
DropActions(windowState, purchaseId, status) ==
    LET first == Action("UPDATE_PURCHASE_STATUS",
                        [id |-> purchaseId, status |-> status])
        found == Find(windowState.purchases, purchaseId)
    IN  IF status = "Purchased" /\ found # <<>>
        THEN <<first, ExpenseFromPurchase(found[1])>>
        ELSE <<first>>

RECURSIVE Reduce(_, _, _)
\* The aggregate after the queued actions went through the reducer in order.
Reduce(s, actions, clock) ==
    IF actions = <<>> THEN s
    ELSE Reduce(financialReducer(s, Head(actions), clock), Tail(actions), clock)

\* The values window.__financial_context_state can hold when handleDrop
\* reads it: PurchasesComponent stores the aggregate it renders, and the
\* render that follows the first dispatch has either not run yet (batched
\* update) or has run (synchronous flush).
WindowStates(purchaseId, status) ==
    {state,
     financialReducer(state,
        Action("UPDATE_PURCHASE_STATUS", [id |-> purchaseId, status |-> status]),
        now)}

handleDrop ==
    \E purchaseId \in IdChoices(state.purchases), status \in PurchaseStatus :
        \E windowState \in WindowStates(purchaseId, status) :
            LET actions == DropActions(windowState, purchaseId, status)
            IN  Commit(Reduce(state, actions, now), actions[Len(actions)])

\* ------------------------------------------------------ goals and plans

\* { ...prev, [key]: text }: an object keeps the position of a key it has.
FormPut(form, key, text) ==
    IF \E i \in 1..Len(form) : form[i][1] = key
    THEN [i \in 1..Len(form) |->
            IF form[i][1] = key THEN <<key, text>> ELSE form[i]]
    ELSE Append(form, <<key, text>>)

RECURSIVE FormPutAll(_, _)
FormPutAll(form, entries) ==
    IF entries = <<>> THEN form
    ELSE FormPutAll(FormPut(form, Head(entries)[1], Head(entries)[2]),
                    Tail(entries))

\* The form filled from the stored records (acc[r.month] = r.amount.toString()).
FormOf(records) ==
    FormPutAll(<<>>, Map(records, LAMBDA r : <<r.month, NumberToString(r.amount)>>))

\* The actions a save-all handler dispatches: one per field that parses.
GoalActions(form) ==
    Map(SelectSeq(form, LAMBDA e : ParseFloat(e[2]) # NaN),
        LAMBDA e : Action("UPDATE_INCOME_GOAL",
                          [month |-> e[1], amount |-> ParseFloat(e[2])]))

PlanActions(form, viewMode) ==
    Map(SelectSeq(form, LAMBDA e : ParseFloat(e[2]) # NaN),
        LAMBDA e : Action("UPDATE_EXPENSE_PLAN",
                          [month |-> e[1], amount |-> ParseFloat(e[2]),
                           mode |-> viewMode]))

\* A handler that dispatches the given actions within one clock tick.
DispatchAll(actions) ==
    IF actions = <<>> THEN NoDispatch
    ELSE Commit(Reduce(state, actions, now), actions[Len(actions)])

handleSaveGoals ==
    \E edits \in FieldEdits(GoalEditMonths) :
        DispatchAll(GoalActions(FormPutAll(FormOf(state.incomeGoals), edits)))

handleSavePlans ==
    \E viewMode \in ViewModes, edits \in FieldEdits(PlanEditMonths) :
        DispatchAll(PlanActions(
            FormPutAll(
                FormOf(SelectSeq(state.expensePlans, LAMBDA p : p.mode = viewMode)),
                edits),
            viewMode))

\* ------------------------------------------------------- export / import

handleExport ==
    /\ mounted
    /\ budget > 0
    /\ file' = JsonStringify(state)
    /\ budget' = budget - 1
    /\ now' = now + 1
    /\ UNCHANGED <<state, last, storage, appVars>>

\* The reader.onload callback of handleImport for the chosen document;
\* confirmed is the answer to window.confirm (the sync view asks, the
\* sidebar import does not).
Accepted(doc, confirmed) == JsonParses(doc) /\ BasicValidation(doc) /\ confirmed

\* Mutant: the import dispatches whatever parses.
ImportFile_Unvalidated(doc, confirmed) ==
    IF JsonParses(doc) /\ doc.j = "object" /\ confirmed
    THEN Dispatch(Action("SET_STATE", JsonValue(doc)))
    ELSE NoDispatch

\* handleImport for one chosen file and one answer to the confirmation.
ImportFile(doc, confirmed) ==
    IF Accepted(doc, confirmed)
    THEN Dispatch(Action("SET_STATE", JsonValue(doc)))
    ELSE NoDispatch

handleImport ==
    \E doc \in (ImportDocs \cup {file}) \ {NoFile}, confirmed \in BOOLEAN :
        ImportFile(doc, confirmed)

\* ---------------------------------------------------------------- mount

\* Documents the browser may hold under 'financialData' when the
\* application starts: none, a complete aggregate, one without expenses,
\* one with only the four collections the import asks for, one without
\* purchases.
DocMissingExpenses ==
    [j |-> "object",
     members |-> [k \in CollectionNames \ {"expenses"} |-> EmptyArray]]

DocMissingPurchases ==
    [j |-> "object",
     members |-> [k \in CollectionNames \ {"purchases"} |-> EmptyArray]]

StoredDocs ==
    {NoFile, JsonStringify(initialState), DocAllEmpty, DocMissingExpenses,
     DocRequiredOnly, DocMissingPurchases}

\* Before the first render: useLocalStorage has read the stored document and
\* useReducer has taken it as its initial state.
InitMount ==
    /\ \E doc \in StoredDocs :
            /\ storage = [financialData |-> doc, geminiApiKey |-> NoFile]
            /\ state = UseLocalStorageInitial(doc, initialState)
    /\ now = 0
    /\ file = NoFile
    /\ last = NoAction
    /\ budget = MaxSteps
    /\ mounted = FALSE
    /\ engines = EnginesIdle
    /\ env = ""

\* The one-time check of FinancialProvider on the raw stored document.
NeedsSeed(store) ==
    \/ store.financialData = NoFile
    \/ ~Truthy(store.financialData, "expenses")

\* The two mount effects of FinancialProvider, in the order they are
\* declared: the aggregate is persisted, then the stored document is
\* checked and the seed dispatched when the check fails, which persists in
\* turn.
AfterMount(store, s, clock) ==
    LET written == SetStoredState(store, s)
        seed == Action("SET_STATE", initialState)
    IN  IF NeedsSeed(written)
        THEN [state |-> financialReducer(s, seed, clock),
              storage |-> SetStoredState(written,
                                         financialReducer(s, seed, clock)),
              dispatched |-> <<seed>>]
        ELSE [state |-> s, storage |-> written, dispatched |-> <<>>]

FinancialProviderMount ==
    LET after == AfterMount(storage, state, now)
    IN  /\ ~mounted
        /\ mounted' = TRUE
        /\ state' = after.state
        /\ storage' = after.storage
        /\ last' = IF after.dispatched = <<>> THEN last
                   ELSE after.dispatched[1]
        /\ UNCHANGED <<now, file, budget, engines, env>>

\* ------------------------------------------------- insights and rundowns

\* Settings.handleSave: the typed key is stored under 'geminiApiKey'.
handleSave ==
    \E key \in ApiKeysTyped :
        /\ mounted
        /\ budget > 0
        /\ storage' = [storage EXCEPT !.geminiApiKey = JsonString(key)]
        /\ budget' = budget - 1
        /\ now' = now + 1
        /\ UNCHANGED <<state, file, last, appVars>>

\* A step of the collaborator's components: the aggregate and its stored
\* document are not touched.
EngineStep(c, e) ==
    /\ mounted
    /\ budget > 0
    /\ engines' = [engines EXCEPT ![c] = e]
    /\ budget' = budget - 1
    /\ now' = now + 1
    /\ UNCHANGED <<state, file, last, storage, mounted, env>>

\* onChange of the months field: setMonths(parseInt(e.target.value, 10)).
setMonths ==
    \E c \in RundownComponents, typed \in MonthsTyped :
        EngineStep(c, [engines[c] EXCEPT !.months = ParseInt(typed)])

\* A click on the trigger, which is disabled while isLoading is set; the
\* service function looks the credential up before it first awaits.
Trigger(c) ==
    /\ ~engines[c].isLoading
    /\ EngineStep(c, Started(engines[c], getApiKey(env, storage)))

generateInsight == \E c \in InsightComponents : Trigger(c)

handleGenerateRundown == \E c \in RundownComponents : Trigger(c)

\* The awaited promise resolves and the handler runs to its end.
Resolve ==
    \E c \in Components, outcome \in ServiceOutcomes :
        /\ engines[c].requests # <<>>
        /\ LET credential == Head(engines[c].requests)
               result == IF c \in InsightComponents
                         THEN getFinancialInsights(credential, outcome)
                         ELSE getFinancialRundown(credential, outcome)
           IN  EngineStep(c, Settled(c, engines[c], result))

\* ------------------------------------------------------------------ spec

Next ==
    \/ handleSaveExpense
    \/ handleUpdateExpense
    \/ handleDeleteExpense
    \/ handleSaveRecurringExpense
    \/ handleUpdateRecurringExpense
    \/ handleDeleteRecurring
    \/ handleLogRecurring
    \/ handleSaveDebt
    \/ handleUpdateDebt
    \/ handleDeleteDebt
    \/ DispatchUpdateDebtBalance
    \/ handleSaveIncome
    \/ handleUpdateIncome
    \/ handleDeleteIncome
    \/ DispatchAddAsset
    \/ DispatchUpdateAssetValue
    \/ handleSavePurchase
    \/ handleDrop
    \/ handleSaveGoals
    \/ handleSavePlans
    \/ handleExport
    \/ handleImport

Spec == Init /\ [][Next]_vars

\* The expense view: the ledger, the recurring templates and their logging.
NextExpenses ==
    \/ handleSaveExpense
    \/ handleUpdateExpense
    \/ handleDeleteExpense
    \/ handleSaveRecurringExpense
    \/ handleUpdateRecurringExpense
    \/ handleDeleteRecurring
    \/ handleLogRecurring

SpecExpenses == InitView /\ [][NextExpenses]_vars

\* The monthly goal and plan fields, with imports replacing the aggregate.
NextPlanning ==
    \/ handleSaveGoals
    \/ handleSavePlans
    \/ handleImport

SpecPlanning == InitView /\ [][NextPlanning]_vars

\* The purchase board.
NextPurchases ==
    \/ handleSavePurchase
    \/ handleDrop
    \/ handleDeleteExpense
    \/ handleImport

SpecPurchases == InitView /\ [][NextPurchases]_vars

\* Backup and restore, between edits of the aggregate.
NextSync ==
    \/ handleExport
    \/ handleImport
    \/ handleSaveDebt
    \/ handleDeleteIncome
    \/ handleLogRecurring
    \/ handleSaveGoals

SpecSync == InitView /\ [][NextSync]_vars

\* The handlers that address one record by its id.
\* The provider from its first render on, with the debt view.
NextProvider ==
    \/ FinancialProviderMount
    \/ mounted /\ RenderDebtDashboard
    \/ mounted /\ handleSaveDebt
    \/ mounted /\ handleUpdateDebt
    \/ mounted /\ handleDeleteDebt
    \/ mounted /\ handleSaveExpense
    \/ mounted /\ handleDeleteExpense
    \/ mounted /\ handleImport

SpecProvider == InitMount /\ [][NextProvider]_vars

\* A mounted application whose build may carry a key.
InitInsights ==
    /\ state = initialState
    /\ now = 0
    /\ file = NoFile
    /\ last = NoAction
    /\ budget = MaxStepsWide
    /\ storage = FreshStorage
    /\ mounted = TRUE
    /\ engines = EnginesIdle
    /\ env \in {"", "env-key"}

NextInsights ==
    \/ handleSave
    \/ setMonths
    \/ generateInsight
    \/ handleGenerateRundown
    \/ Resolve

SpecInsights == InitInsights /\ [][NextInsights]_vars

\* The handlers that change what the dashboard's metrics are computed from.
NextMetrics ==
    \/ DispatchAddAsset
    \/ DispatchUpdateAssetValue
    \/ handleSaveDebt
    \/ handleDeleteDebt
    \/ DispatchUpdateDebtBalance
    \/ handleImport

SpecMetrics == InitView /\ [][NextMetrics]_vars

\* The investment view next to the views that sort or log in place.
NextInvestments ==
    \/ handleNameSave
    \/ handleDeleteAsset
    \/ handleSaveAsset
    \/ RenderDebtDashboard
    \/ handleSaveDebt
    \/ handleLogRecurring
    \/ handleDeleteExpense

SpecInvestments == InitView /\ [][NextInvestments]_vars

\* The handlers that change what the monthly totals are computed from.
NextTotals ==
    \/ handleSaveExpense
    \/ handleDeleteExpense
    \/ handleSaveIncome
    \/ handleDeleteIncome
    \/ handleLogRecurring
    \/ handleImport

SpecTotals == InitView /\ [][NextTotals]_vars

\* The recurring templates and the logging of their expenses.
NextRecurring ==
    \/ handleSaveRecurringExpense
    \/ handleUpdateRecurringExpense
    \/ handleDeleteRecurring
    \/ handleLogRecurring
    \/ handleDeleteExpense

SpecRecurring == InitView /\ [][NextRecurring]_vars

\* The goal and plan fields over fewer events.
SpecUpserts == Init /\ [][NextPlanning]_vars

NextRecords ==
    \/ handleSaveExpense
    \/ handleUpdateExpense
    \/ handleDeleteExpense
    \/ handleUpdateRecurringExpense
    \/ handleDeleteRecurring
    \/ handleSaveDebt
    \/ handleUpdateDebt
    \/ handleDeleteDebt
    \/ DispatchUpdateDebtBalance
    \/ handleUpdateIncome
    \/ handleDeleteIncome
    \/ DispatchUpdateAssetValue
    \/ handleDrop

SpecRecords == Init /\ [][NextRecords]_vars

\* ================================================================ claims

\* The month keys the claims about logging range over: before the seed
\* templates start, after it, and after every start month of the forms.
ClaimMonths == {"2025-10", "2025-12", "2026-01"}

LogAction(M) == Action("LOG_RECURRING_EXPENSES_FOR_MONTH", [month |-> M])

\* s is a prefix of t.
IsPrefix(s, t) == Len(s) <= Len(t) /\ SubSeq(t, 1, Len(s)) = s

\* The elements of t after its first n.
After(t, n) == SubSeq(t, n + 1, Len(t))

\* C1: in every reachable aggregate and for every month key M, logging the
\* recurring expenses of M a second time adds no expense and returns the
\* aggregate the first logging produced.
C1_LogRecurringIdempotent ==
    \A M \in ClaimMonths :
        LET once == financialReducer(state, LogAction(M), now)
            twice == financialReducer(once, LogAction(M), now + 1)
        IN  twice = once

\* A logging of 2025-12 has run, it added expenses, and a template other
\* than the seed's is among the templates.
C1_Witness ==
    /\ last = LogAction("2025-12")
    /\ Len(state.expenses) > Len(initialState.expenses)
    /\ state.recurringExpenses # initialState.recurringExpenses
    /\ financialReducer(state, last, now) = state

\* C2: logging the recurring expenses of M changes only the expenses
\* collection: the expenses present before stay, unchanged and in order, at
\* the front; every added expense is dated M-01; the other seven collections
\* are unchanged.
C2_LogRecurringFrame ==
    \A M \in ClaimMonths :
        LET after == financialReducer(state, LogAction(M), now)
        IN  /\ DOMAIN after = DOMAIN state
            /\ \A k \in (DOMAIN state) \ {"expenses"} : after[k] = state[k]
            /\ IsPrefix(state.expenses, after.expenses)
            /\ \A i \in (Len(state.expenses) + 1)..Len(after.expenses) :
                    after.expenses[i].date = M \o "-01"

\* A logging of 2025-12 has appended an expense for a template whose start
\* month is not 2025-12, behind an expense that was there before.
C2_Witness ==
    /\ last = LogAction("2025-12")
    /\ Len(state.expenses) > Len(initialState.expenses)
    /\ state.expenses[Len(state.expenses)].date = "2025-12-01"
    /\ \E i \in 1..Len(state.recurringExpenses) :
            state.recurringExpenses[i].startDate = "2025-10"
    /\ state.expenses[1] = initialState.expenses[1]

\* The three expenses the seed's templates are logged as in 2025-12.
SeedLogged2025_12 ==
    <<[id |-> "logged-re1-2025-12", date |-> "2025-12-01",
       category |-> "Housing", amount |-> 650,
       description |-> "Rent (Recurring)", mode |-> ExpenseMode_Both],
      [id |-> "logged-re2-2025-12", date |-> "2025-12-01",
       category |-> "Training/Gym", amount |-> 50,
       description |-> "Gym Membership (Recurring)",
       mode |-> ExpenseMode_Growth],
      [id |-> "logged-re3-2025-12", date |-> "2025-12-01",
       category |-> "Personal", amount |-> 30,
       description |-> "Phone Bill (Recurring)",
       mode |-> ExpenseMode_Survival]>>

\* C3: with the seed's three templates and none of their 2025-12 expenses
\* logged yet (the seed dataset is such an aggregate), logging 2025-12 adds
\* exactly three expenses, dated 2025-12-01, with the ids logged-re1-2025-12,
\* logged-re2-2025-12 and logged-re3-2025-12; logging it again adds none.
C3_SeedLogsThree ==
    LET once == financialReducer(state, LogAction("2025-12"), now)
        twice == financialReducer(once, LogAction("2025-12"), now + 1)
        added == After(once.expenses, Len(state.expenses))
    IN  /\ Ids(initialState.expenses) \cap Ids(SeedLogged2025_12) = {}
        /\ (/\ state.recurringExpenses = initialState.recurringExpenses
            /\ Ids(state.expenses) \cap Ids(SeedLogged2025_12) = {})
           => /\ Len(added) = 3
              /\ \A i \in 1..3 :
                    /\ added[i].date = "2025-12-01"
                    /\ added[i].id = SeedLogged2025_12[i].id
              /\ Len(twice.expenses) = Len(once.expenses)

\* The seed dataset after one logging of 2025-12.
C3_Witness ==
    /\ last = LogAction("2025-12")
    /\ state = [initialState EXCEPT !.expenses = @ \o SeedLogged2025_12]

\* The longest sequence of same-month upserts the claims fold.
MaxGoalSeq == 2

ClaimAmounts == {1500, 1600, 2100}

\* A month the seed has a goal and plans for, and one it has none for.
ClaimUpsertMonths == {"2025-11", "2025-10"}

AmountSeqs == UNION {[1..n -> ClaimAmounts] : n \in 1..MaxGoalSeq}

RECURSIVE ReduceEach(_, _, _)
\* The aggregate after the actions were dispatched by successive events.
ReduceEach(s, actions, clock) ==
    IF actions = <<>> THEN s
    ELSE ReduceEach(financialReducer(s, Head(actions), clock), Tail(actions),
                    clock + 1)

GoalAction(month, amount) ==
    Action("UPDATE_INCOME_GOAL", [month |-> month, amount |-> amount])

UniquePlans(plans) ==
    \A i, j \in 1..Len(plans) :
        (plans[i].month = plans[j].month /\ plans[i].mode = plans[j].mode)
            => i = j

ClaimPlanModes ==
    {ExpenseMode_Survival, ExpenseMode_Growth,
     ExpensePlanMode_Survival, ExpensePlanMode_Growth}

\* C5: in every aggregate reachable from the seed (imports bringing
\* documents with at most one plan per key), and after one more
\* UPDATE_EXPENSE_PLAN of any key, expensePlans holds at most one record per
\* (month, mode) pair.
C5_PlansUniquePerKey ==
    /\ UniquePlans(state.expensePlans)
    /\ \A month \in ClaimUpsertMonths, mode \in ClaimPlanModes,
          amount \in ClaimAmounts :
            UniquePlans(financialReducer(state,
                Action("UPDATE_EXPENSE_PLAN",
                       [month |-> month, mode |-> mode, amount |-> amount]),
                now).expensePlans)

\* Plans were saved twice for one key, the second time with another amount.
C5_Witness ==
    /\ last.type = "UPDATE_EXPENSE_PLAN"
    /\ Len(state.expensePlans) > Len(initialState.expensePlans)
    /\ \E i \in 1..Len(state.expensePlans) :
            /\ state.expensePlans[i].month = last.payload.month
            /\ state.expensePlans[i].mode = last.payload.mode
            /\ state.expensePlans[i].amount = 1600
            /\ state.expensePlans[i].id # "ep-" \o ToString(now - 1)

\* C6: dropping the card of a purchase P that is Considering on the
\* Purchased column appends exactly one expense, whose amount is P.cost and
\* whose category is P.category, and leaves P Purchased.
C6_PurchasedAddsOneExpense ==
    \A i \in 1..Len(state.purchases) :
        LET P == state.purchases[i]
        IN  P.status = "Considering" =>
            \A windowState \in WindowStates(P.id, "Purchased") :
                LET after == Reduce(state,
                                DropActions(windowState, P.id, "Purchased"), now)
                    n == Len(state.expenses)
                IN  /\ Len(after.expenses) = n + 1
                    /\ IsPrefix(state.expenses, after.expenses)
                    /\ after.expenses[n + 1].amount = P.cost
                    /\ after.expenses[n + 1].category = P.category
                    /\ after.purchases[i].status = "Purchased"

\* A purchase added through the form was dropped on Purchased and its
\* expense is the last of the ledger.
C6_Witness ==
    /\ last.type = "ADD_EXPENSE"
    /\ \E i \in 1..Len(state.purchases) :
            /\ state.purchases[i].id # "p1"
            /\ state.purchases[i].status = "Purchased"
            /\ last.payload.id = "exp-from-pur-" \o state.purchases[i].id
            /\ last.payload.amount = state.purchases[i].cost
    /\ state.expenses[Len(state.expenses)] = last.payload

\* The aggregate after the import handlers ran on doc while current was the
\* aggregate.
Imported(current, doc, confirmed) ==
    IF Accepted(doc, confirmed)
    THEN financialReducer(current, Action("SET_STATE", JsonValue(doc)), now)
    ELSE current

\* C7: every reachable aggregate (each holds the eight collections) is
\* restored by importing the document its export wrote, whatever the
\* aggregate is at the time of the import.
C7_ExportImportRoundTrip ==
    LET doc == JsonStringify(state)
    IN  /\ CollectionNames \subseteq DOMAIN state
        /\ Accepted(doc, TRUE)
        /\ \A current \in {state, initialState, JsonValue(DocAllEmpty)} :
                Imported(current, doc, TRUE) = state

\* An aggregate that differs from the seed was exported and imported back.
C7_Witness ==
    /\ last.type = "SET_STATE"
    /\ file # NoFile
    /\ last.payload = JsonValue(file)
    /\ state = JsonValue(file)
    /\ Len(state.debts) > Len(initialState.debts)

\* The payloads SET_STATE is claimed about: imported documents without some
\* collections, with all of them, with none, and an exported aggregate.
ClaimPayloads ==
    {JsonValue(DocRequiredOnly), JsonValue(DocAllEmpty), initialState,
     [debts |-> <<>>], <<>>, JsonValue(JsonStringify(state))}

\* C8: SET_STATE(payload) yields the payload's value for every collection
\* the payload holds and the seed's value for every other one, whatever the
\* current aggregate.
C8_SetStateLayersOverSeed ==
    \A payload \in ClaimPayloads :
        LET after == financialReducer(state, Action("SET_STATE", payload), now)
        IN  /\ \A k \in CollectionNames :
                    after[k] = IF k \in DOMAIN payload
                               THEN payload[k] ELSE initialState[k]
            /\ after = financialReducer(initialState,
                                        Action("SET_STATE", payload), now)

\* After the goals were changed and exported, a document without goals was
\* imported and the goals are the seed's again.
C8_Witness ==
    /\ last = Action("SET_STATE", JsonValue(DocRequiredOnly))
    /\ file # NoFile
    /\ JsonValue(file).incomeGoals # initialState.incomeGoals
    /\ state.incomeGoals = initialState.incomeGoals
    /\ state.debts = <<>>

\* Ids that no record of the collection carries.
MissingIds(coll) == {StaleId, "e-9", ""} \ Ids(coll)

\* The update and delete actions of the claim, each for an id its
\* collection does not hold.
UnmatchedActions(s) ==
    {Action("UPDATE_EXPENSE", WithId(id, ExpenseFormData)) :
        id \in MissingIds(s.expenses)}
    \cup {Action("DELETE_EXPENSE", [id |-> id]) : id \in MissingIds(s.expenses)}
    \cup {Action("UPDATE_DEBT", WithId(id, DebtFormData)) :
        id \in MissingIds(s.debts)}
    \cup {Action("DELETE_DEBT", [id |-> id]) : id \in MissingIds(s.debts)}
    \cup {Action("UPDATE_DEBT_BALANCE", [id |-> id, newBalance |-> 1000]) :
        id \in MissingIds(s.debts)}
    \cup {Action("UPDATE_INCOME", WithId(id, IncomeFormData)) :
        id \in MissingIds(s.income)}
    \cup {Action("DELETE_INCOME", [id |-> id]) : id \in MissingIds(s.income)}
    \cup {Action("UPDATE_RECURRING_EXPENSE", WithId(id, RecurringFormData("2025-10"))) :
        id \in MissingIds(s.recurringExpenses)}
    \cup {Action("DELETE_RECURRING_EXPENSE", [id |-> id]) :
        id \in MissingIds(s.recurringExpenses)}
    \cup {Action("UPDATE_PURCHASE_STATUS", [id |-> id, status |-> st]) :
        id \in MissingIds(s.purchases), st \in PurchaseStatus}
    \cup {Action("UPDATE_ASSET_VALUE", [id |-> id, newValue |-> 1600]) :
        id \in MissingIds(s.assets)}

\* C9: an update or delete whose id matches no record of its collection
\* leaves every collection with the same records in the same order.
C9_UnmatchedIdIsNoOp ==
    \A action \in UnmatchedActions(state) :
        financialReducer(state, action, now) = state

\* An update and then a delete went through the reducer, the delete for an
\* id its collection does not hold.
C9_Witness ==
    /\ last.type \in {"DELETE_EXPENSE", "DELETE_DEBT", "DELETE_INCOME",
                      "DELETE_RECURRING_EXPENSE"}
    /\ last.payload.id = StaleId
    /\ state # initialState
    /\ last \in UnmatchedActions(state)

\* One action of every type, for keys and ids the aggregate holds and for
\* ones it does not.
ClaimActions(s) ==
    UnmatchedActions(s)
    \cup {LogAction(M) : M \in ClaimMonths}
    \cup {GoalAction(month, 1600) : month \in ClaimUpsertMonths}
    \cup {Action("UPDATE_EXPENSE_PLAN",
                 [month |-> month, mode |-> ExpensePlanMode_Growth,
                  amount |-> 1600]) : month \in ClaimUpsertMonths}
    \cup {Action("SET_STATE", JsonValue(DocRequiredOnly)),
          Action("ADD_EXPENSE", WithId("e-x", ExpenseFormData)),
          Action("ADD_DEBT", WithId("d-x", DebtFormData)),
          Action("ADD_INCOME", WithId("i-x", IncomeFormData)),
          Action("ADD_ASSET", NewAsset),
          Action("ADD_RECURRING_EXPENSE", WithId("re-x", RecurringFormData("2025-10"))),
          Action("UPDATE_EXPENSE", WithId("e1", ExpenseFormData)),
          Action("DELETE_DEBT", [id |-> "d1"]),
          Action("UPDATE_PURCHASE_STATUS", [id |-> "p1", status |-> "Declined"]),
          Action("UPDATE_DEBT_BALANCE", [id |-> "d1", newBalance |-> 1000]),
          Action("UPDATE_ASSET_VALUE", [id |-> "a1", newValue |-> 1600])}

\* C10 (as claimed): the aggregate the reducer returns for an action is the
\* same whenever the action is reduced.
C10_ReducerPure ==
    \A action \in ClaimActions(state), later \in {now + 1, now + 2} :
        financialReducer(state, action, later)
            = financialReducer(state, action, now)

\* C11 (as claimed): displaying the debt view leaves the aggregate as it
\* is, the order of the debts included.
C11_RenderKeepsAggregate == [][RenderDebtDashboard => state' = state]_vars

\* C12 (as claimed): once the provider is mounted and no persistence effect
\* is pending (none is between two events), the document stored under
\* 'financialData' is the in-memory aggregate.
C12_StoredIsAggregate ==
    mounted => storage.financialData = JsonStringify(state)

\* A stored document that is absent or lacks one of the eight collections.
Incomplete(doc) ==
    \/ doc = NoFile
    \/ \E k \in CollectionNames : k \notin DOMAIN doc.members

\* C13 (as claimed): initialization turns an absent or incomplete stored
\* document into the seed dataset, in memory and in storage, and takes any
\* other stored document as the aggregate.
C13_MountFallsBackToSeed ==
    ~mounted =>
        LET doc == storage.financialData
            after == AfterMount(storage, state, now)
        IN  IF Incomplete(doc)
            THEN /\ after.state = initialState
                 /\ after.storage.financialData = JsonStringify(initialState)
            ELSE after.state = JsonValue(doc)

\* Files the import must turn down, besides those the dialog offers: a
\* document that is no object and one whose expenses are null.
DocNumber == [j |-> "number", text |-> <<5>>]

RejectedDocs ==
    {GarbageDoc, DocMissingIncome, DocMissingExpenses, DocNumber, EmptyArray,
     [j |-> "object",
      members |-> [k \in {"debts", "income", "assets"} |-> EmptyArray]]}

\* C14: an import of a document that does not parse or lacks one of
\* expenses, debts, income and assets dispatches nothing: the aggregate, the
\* last action handed to the reducer and the stored document stay as they are.
C14_RejectedImportKeepsState ==
    [][\A doc \in RejectedDocs \cup {GarbageDoc, DocMissingIncome},
          confirmed \in BOOLEAN :
            ImportFile(doc, confirmed) =>
                /\ state' = state
                /\ last' = last
                /\ storage' = storage]_vars

\* Two import attempts were made and the reducer was never reached.
C14_Witness ==
    /\ budget = MaxSteps - 2
    /\ file = NoFile
    /\ last = NoAction
    /\ state = initialState

\* The credentials a call can find.
Credentials ==
    {getApiKey(e, [FreshStorage EXCEPT !.geminiApiKey = k]) :
        e \in {"", "env-key"},
        k \in {NoFile} \cup {JsonString(key) : key \in ApiKeysTyped}}

\* C15 (as claimed): whatever the credential and whatever the service does,
\* both service functions resolve with a string.
C15_ServiceResolvesWithString ==
    \A credential \in Credentials \cup {getApiKey(env, storage)},
       outcome \in ServiceOutcomes :
        /\ getFinancialInsights(credential, outcome).t = "string"
        /\ getFinancialRundown(credential, outcome).t = "string"

\* C16 (as claimed): a request that found no credential ends with the
\* component's error set and its insight or forecast text empty.
C16_MissingKeyIsAnError ==
    \A c \in Components :
        engines[c].returned = <<StringValue(MissingKeyMessage)>> =>
            /\ engines[c].error # <<>>
            /\ engines[c].text = <<>>

\* C17 (as claimed): the horizon of every getFinancialRundown call is a
\* whole number from 6 to 60.
C17_HorizonWithinRange ==
    \A c \in RundownComponents :
        engines[c].horizon # <<>> => engines[c].horizon[1] \in 6..60

\* C18: a component's loading flag is set exactly while it has a request
\* outstanding, it never has two, and once the request has completed the
\* flag is clear and the component shows an error string or the returned
\* text.
C18_LoadingSpansRequest ==
    \A c \in Components :
        LET e == engines[c]
        IN  /\ Len(e.requests) <= 1
            /\ e.isLoading = (e.requests # <<>>)
            /\ e.returned # <<>> =>
                /\ ~e.isLoading
                /\ \/ e.error # <<>>
                   \/ e.returned[1].t = "string" /\ e.text = e.returned[1].v

\* A rundown request completed with a text, which is displayed.
C18_Witness ==
    \E c \in RundownComponents :
        /\ engines[c].returned # <<>>
        /\ ~engines[c].isLoading
        /\ engines[c].requests = <<>>
        /\ engines[c].error = <<>>
        /\ engines[c].text # <<>>

RECURSIVE SumOf(_, _)
\* The sum of the field over the records, last record first.
SumOf(records, field) ==
    IF records = <<>> THEN 0
    ELSE records[Len(records)][field]
            + SumOf(SubSeq(records, 1, Len(records) - 1), field)

\* C19: for the current aggregate and for the empty one, the net worth of
\* NetWorthTracker and of GoalProgress is the sum of the assets' currentValue
\* minus the sum of the debts' currentBalance, 0 when there are neither.
C19_NetWorthAdditive ==
    \A s \in {state, JsonValue(DocAllEmpty)} :
        LET expected == SumOf(s.assets, "currentValue")
                            - SumOf(s.debts, "currentBalance")
        IN  /\ NetWorthTracker(s).netWorth = expected
            /\ GoalProgress(s) = expected
            /\ (s.assets = <<>> /\ s.debts = <<>>) => expected = 0

\* A debt was added to an aggregate imported without assets: the net worth
\* is the debt's balance, negated.
C19_Witness ==
    /\ last.type = "ADD_DEBT"
    /\ state.assets = <<>>
    /\ Len(state.debts) = 1
    /\ NetWorthTracker(state).netWorth = 0 - state.debts[1].currentBalance
    /\ NetWorthTracker(state).netWorth < 0

\* Assets with and without an invested amount, at a gain, a loss and worthless.
ClaimAssets ==
    {[NewAsset EXCEPT !.amountInvested = ai, !.currentValue = cv] :
        ai \in {0, 800, 1000}, cv \in {0, 950, 1000}}

\* C20: the ROI of an asset is exactly 0 when its amountInvested is 0,
\* whatever its currentValue, and (currentValue - amountInvested) /
\* amountInvested * 100 otherwise.
C20_RoiZeroGuard ==
    \A asset \in ClaimAssets \cup {state.assets[i] : i \in 1..Len(state.assets)} :
        LET roi == Roi(asset)
        IN  /\ roi.kind = "finite"
            /\ roi.den # 0
            /\ IF asset.amountInvested = 0
               THEN roi.num = 0
               ELSE roi.num * asset.amountInvested
                        = (asset.currentValue - asset.amountInvested) * 100
                            * roi.den

\* An asset with nothing invested and a value was added; its ROI is 0.
C20_Witness ==
    /\ last.type = "ADD_ASSET"
    /\ last.payload.amountInvested = 0
    /\ last.payload.currentValue # 0
    /\ state.assets[Len(state.assets)] = last.payload
    /\ Roi(last.payload).num = 0

\* The value of a number that is a ratio, compared with the ratio a / b.
IsRatio(x, a, b) == Lowest(x) = Lowest(Finite(a, b))

\* The collections of debts the payoff percentages are looked at for.
ClaimDebtLists ==
    {state.debts, <<>>,
     <<[originalAmount |-> 2000, currentBalance |-> 1200]>>,
     Append(state.debts, [originalAmount |-> 0, currentBalance |-> 0])}

\* C21: a debt's payoff percentage is (1 - currentBalance / originalAmount)
\* * 100, which is 40 for 2000 and 1200; the overall percentage is that
\* formula on the two sums over all debts, and 0 when the originals sum to 0.
C21_PayoffPercentage ==
    /\ IsRatio(Progress([originalAmount |-> 2000, currentBalance |-> 1200]),
               40, 1)
    /\ \A i \in 1..Len(state.debts) :
          LET d == state.debts[i]
          IN  d.originalAmount # 0 =>
                IsRatio(Progress(d),
                        (d.originalAmount - d.currentBalance) * 100,
                        d.originalAmount)
    /\ \A debts \in ClaimDebtLists :
          LET originals == SumOf(debts, "originalAmount")
              currents == SumOf(debts, "currentBalance")
          IN  IF originals = 0
              THEN IsRatio(OverallProgress(debts), 0, 1)
              ELSE IsRatio(OverallProgress(debts),
                           (originals - currents) * 100, originals)

\* Three debts whose percentages differ, the last one just added.
C21_Witness ==
    /\ last.type = "ADD_DEBT"
    /\ Len(state.debts) = 3
    /\ ~IsRatio(OverallProgress_Average(state.debts),
                OverallProgress(state.debts).num,
                OverallProgress(state.debts).den)
    /\ \E i \in 1..Len(state.debts) :
          IsRatio(Progress(state.debts[i]), 40, 1)

\* The characters of a text, one by one.
Chars(str) == [i \in 1..Len(str) |-> SubSeq(str, i, i)]

\* The date begins with the key, character by character.
BeginsWith(date, key) ==
    /\ Len(key) <= Len(date)
    /\ \A i \in 1..Len(key) : Chars(date)[i] = Chars(key)[i]

RECURSIVE SumBeginning(_, _)
\* The sum of amount over the records whose date begins with the key.
SumBeginning(records, key) ==
    IF records = <<>> THEN 0
    ELSE (IF BeginsWith(Head(records).date, key)
          THEN Head(records).amount ELSE 0)
         + SumBeginning(Tail(records), key)

ClaimDated(date) == [id |-> "x", date |-> date, amount |-> 7]

\* C22: the monthly total for a key is the sum of amount over exactly the
\* records whose date begins with the key; a record dated 2025-11-30 counts
\* toward 2025-11 and one dated 2025-1-05 does not count toward 2025-01.
C22_MonthlyTotalByPrefix ==
    /\ \A i \in 1..14 :
          /\ ExpenseTrackerData(state)[i].Actual
                = SumBeginning(state.expenses, expenseMonths[i])
          /\ IncomeTrackerData(state)[i].Actual
                = SumBeginning(state.income, months[i])
    /\ MonthlySummary(state).income = SumBeginning(state.income, "2025-11")
    /\ MonthlySummary(state).expenses
          = SumBeginning(state.expenses, "2025-11")
    /\ MonthlySummary(state).netFlow
          = SumBeginning(state.income, "2025-11")
              - SumBeginning(state.expenses, "2025-11")
    /\ \A records \in {state.expenses, state.income} :
          /\ MonthlyTotal(Append(records, ClaimDated("2025-11-30")),
                          "2025-11")
                = MonthlyTotal(records, "2025-11") + 7
          /\ MonthlyTotal(Append(records, ClaimDated("2025-1-05")),
                          "2025-01")
                = MonthlyTotal(records, "2025-01")

\* An expense was just added and December's total is above the seed's.
C22_Witness ==
    /\ last.type = "ADD_EXPENSE"
    /\ MonthlyTotal(state.expenses, "2025-12")
          > MonthlyTotal(initialState.expenses, "2025-12")
    /\ MonthlyTotal(state.expenses, "2025-11") > 0

\* The text is a month key YYYY-MM of the years looked at.
IsMonthKey(text) ==
    /\ Len(text) = 7
    /\ SubSeq(text, 5, 5) = "-"
    /\ \E y \in Years : ToString(y) = SubSeq(text, 1, 4)
    /\ \E m \in 1..12 : PadStart2(m) = SubSeq(text, 6, 7)

YearOf(key) == CHOOSE y \in Years : ToString(y) = SubSeq(key, 1, 4)
MonthOf(key) == CHOOSE m \in 1..12 : PadStart2(m) = SubSeq(key, 6, 7)

\* Month a is not later than month b in the calendar.
NotLater(a, b) ==
    /\ IsMonthKey(a)
    /\ IsMonthKey(b)
    /\ \/ YearOf(a) < YearOf(b)
       \/ YearOf(a) = YearOf(b) /\ MonthOf(a) <= MonthOf(b)

\* The months the logging is looked at for: the start month of the seed's
\* templates, of the form's, and months around them.
ClaimLogMonths == ClaimMonths \cup {"2025-11"}

\* C23: logging month M adds, for each template T, an expense with id
\* logged-<T.id>-<M> exactly when T's start month is not later than M and no
\* expense has that id yet; the added expense is dated M-01, has T's
\* category, amount and mode and T's description followed by " (Recurring)".
\* A start date that is no month key is not later than nothing.
C23_LogAddsExactlyTheDue ==
    \A M \in ClaimLogMonths :
        LET after == financialReducer(state, LogAction(M), now)
            added == After(after.expenses, Len(state.expenses))
        IN  /\ IsPrefix(state.expenses, after.expenses)
            /\ \A i \in 1..Len(state.recurringExpenses) :
                  LET T == state.recurringExpenses[i]
                      id == "logged-" \o T.id \o "-" \o M
                      due == /\ NotLater(T.startDate, M)
                             /\ \A k \in 1..Len(state.expenses) :
                                    state.expenses[k].id # id
                      at == {j \in 1..Len(added) : added[j].id = id}
                  IN  /\ due <=> at # {}
                      /\ Cardinality(at) <= 1
                      /\ \A j \in at :
                            added[j] = [id |-> id,
                                        date |-> M \o "-01",
                                        category |-> T.category,
                                        amount |-> T.amount,
                                        description |->
                                            T.description \o " (Recurring)",
                                        mode |-> T.mode]
            /\ \A j \in 1..Len(added) :
                  \E i \in 1..Len(state.recurringExpenses) :
                      added[j].id
                        = "logged-" \o state.recurringExpenses[i].id \o "-" \o M

\* A month was just logged: the aggregate holds a logged expense of a
\* template of the form next to a template that was not due and one whose
\* start date is no month.
C23_Witness ==
    /\ last.type = "LOG_RECURRING_EXPENSES_FOR_MONTH"
    /\ \E i \in 1..Len(state.recurringExpenses) :
          LET T == state.recurringExpenses[i]
          IN  /\ T.startDate = last.payload.month
              /\ \E k \in 1..Len(state.expenses) :
                    state.expenses[k].id
                      = "logged-" \o T.id \o "-" \o last.payload.month
    /\ \E i \in 1..Len(state.recurringExpenses) :
          ~IsMonthKey(state.recurringExpenses[i].startDate)

\* after is before with the amount of the records that have the key set,
\* or, when no record has the key, before with one record of the key and
\* the amount appended.
UpsertedOn(before, after, HasKey(_), amount) ==
    IF \E i \in 1..Len(before) : HasKey(before[i])
    THEN /\ Len(after) = Len(before)
         /\ \A i \in 1..Len(before) :
                IF HasKey(before[i])
                THEN /\ after[i].id = before[i].id
                     /\ after[i].amount = amount
                     /\ after[i] = [before[i] EXCEPT !.amount = amount]
                ELSE after[i] = before[i]
    ELSE /\ Len(after) = Len(before) + 1
         /\ IsPrefix(before, after)
         /\ HasKey(after[Len(after)])
         /\ after[Len(after)].amount = amount

\* C24: UPDATE_INCOME_GOAL and UPDATE_EXPENSE_PLAN are upserts on month,
\* respectively month and mode: a record with the key keeps its id and
\* place and gets the amount, every record with another key is unchanged
\* and the length is the same; without such a record exactly one record
\* with the key and the amount is appended to the unchanged records.
C24_UpsertOnKey ==
    \A month \in ClaimUpsertMonths, amount \in ClaimAmounts :
        /\ UpsertedOn(state.incomeGoals,
                      financialReducer(state, GoalAction(month, amount),
                                       now).incomeGoals,
                      LAMBDA g : g.month = month, amount)
        /\ \A mode \in ClaimPlanModes :
              UpsertedOn(state.expensePlans,
                         financialReducer(state,
                            Action("UPDATE_EXPENSE_PLAN",
                                   [month |-> month, mode |-> mode,
                                    amount |-> amount]),
                            now).expensePlans,
                         LAMBDA p : p.month = month /\ p.mode = mode, amount)

\* A plan was just saved for a month whose plan of the other mode is there
\* with another amount.
C24_Witness ==
    /\ last.type = "UPDATE_EXPENSE_PLAN"
    /\ \E i, j \in 1..Len(state.expensePlans) :
          /\ state.expensePlans[i].month = last.payload.month
          /\ state.expensePlans[i].mode = last.payload.mode
          /\ state.expensePlans[i].amount = last.payload.amount
          /\ state.expensePlans[j].month = last.payload.month
          /\ state.expensePlans[j].mode # last.payload.mode
          /\ state.expensePlans[j].amount # last.payload.amount

\* The ids of the records are pairwise distinct.
UniqueIds(records) ==
    \A i, j \in 1..Len(records) : records[i].id = records[j].id => i = j

\* C25: a record appended by the insert branch of UPDATE_INCOME_GOAL or
\* UPDATE_EXPENSE_PLAN has an id no record of its collection has, also when
\* a save-all handler dispatches several upserts for new keys within one
\* clock tick: the ids of the goals, and of the plans, stay pairwise
\* distinct.
C25_InsertedIdIsFresh ==
    /\ UniqueIds(state.incomeGoals)
    /\ UniqueIds(state.expensePlans)

\* The collections that have an Update and a Delete action, with the type
\* of each and a payload of the collection's form.
ClaimCrud ==
    {[coll |-> "expenses", update |-> "UPDATE_EXPENSE",
      delete |-> "DELETE_EXPENSE", data |-> ExpenseFormData],
     [coll |-> "debts", update |-> "UPDATE_DEBT",
      delete |-> "DELETE_DEBT", data |-> DebtFormData],
     [coll |-> "income", update |-> "UPDATE_INCOME",
      delete |-> "DELETE_INCOME", data |-> IncomeFormData],
     [coll |-> "recurringExpenses", update |-> "UPDATE_RECURRING_EXPENSE",
      delete |-> "DELETE_RECURRING_EXPENSE",
      data |-> RecurringFormData("2026-01")]}

\* The positions of the records that do not have the id.
Others(records, id) == {i \in 1..Len(records) : records[i].id # id}

\* kept is records without the records that have the id: the n-th record of
\* kept is the n-th of the others.
IsWithout(kept, records, id) ==
    /\ Len(kept) = Cardinality(Others(records, id))
    /\ \A i \in Others(records, id) :
          kept[Cardinality({j \in Others(records, id) : j <= i})] = records[i]

\* C26: an Update whose id matches puts the payload in the place of every
\* record with that id and leaves the other records, the length and the
\* order as they were; a Delete whose id matches removes every record with
\* that id and keeps the others in their order.
C26_UpdateAndDeleteById ==
    \A c \in ClaimCrud :
        \A id \in Ids(state[c.coll]) :
            LET before == state[c.coll]
                payload == WithId(id, c.data)
                updated == financialReducer(state, Action(c.update, payload),
                                            now)[c.coll]
                deleted == financialReducer(state,
                                            Action(c.delete, [id |-> id]),
                                            now)[c.coll]
            IN  /\ Len(updated) = Len(before)
                /\ \A i \in 1..Len(before) :
                      updated[i] = IF before[i].id = id
                                   THEN payload ELSE before[i]
                /\ IsWithout(deleted, before, id)
                /\ id \notin Ids(deleted)

\* An income record was just updated in place.
C26_Witness ==
    /\ last.type = "UPDATE_INCOME"
    /\ Len(state.income) = Len(initialState.income)
    /\ state.income[Len(state.income)] = last.payload
    /\ state.income # initialState.income

\* C27: whatever status changes a purchase P went through, moved to
\* Purchased more than once or dropped on the Purchased column while
\* Purchased, the expenses hold at most one expense with id
\* exp-from-pur-<P.id>.
C27_OneExpensePerPurchase ==
    \A i \in 1..Len(state.purchases) :
        Cardinality({k \in 1..Len(state.expenses) :
            state.expenses[k].id
                = "exp-from-pur-" \o state.purchases[i].id}) <= 1

\* C28: in every aggregate whose templates were added and updated through
\* the forms, logging a month keeps the expense ids pairwise distinct when
\* they were.
C28_LogKeepsIdsUnique ==
    \A M \in ClaimLogMonths :
        UniqueIds(state.expenses) =>
            UniqueIds(financialReducer(state, LogAction(M), now).expenses)

\* A month was just logged for the seed's templates and one added through
\* the form, and the expense ids are pairwise distinct.
C28_Witness ==
    /\ last.type = "LOG_RECURRING_EXPENSES_FOR_MONTH"
    /\ Len(state.recurringExpenses) > Len(initialState.recurringExpenses)
    /\ Len(state.expenses) > Len(initialState.expenses) + 3
    /\ UniqueIds(state.expenses)
    /\ UniqueIds(state.recurringExpenses)

\* The collection an action type targets.
TargetOf(type) ==
    CASE type \in {"ADD_EXPENSE", "UPDATE_EXPENSE", "DELETE_EXPENSE"}
            -> "expenses"
      [] type \in {"ADD_DEBT", "UPDATE_DEBT", "DELETE_DEBT",
                   "UPDATE_DEBT_BALANCE"} -> "debts"
      [] type \in {"ADD_INCOME", "UPDATE_INCOME", "DELETE_INCOME"} -> "income"
      [] type \in {"ADD_ASSET", "UPDATE_ASSET_VALUE"} -> "assets"
      [] type \in {"ADD_PURCHASE", "UPDATE_PURCHASE_STATUS"} -> "purchases"
      [] type \in {"ADD_RECURRING_EXPENSE", "UPDATE_RECURRING_EXPENSE",
                   "DELETE_RECURRING_EXPENSE"} -> "recurringExpenses"
      [] type = "UPDATE_INCOME_GOAL" -> "incomeGoals"
      [] type = "UPDATE_EXPENSE_PLAN" -> "expensePlans"

\* Add, Update, Delete and upsert actions, for ids and keys the aggregate
\* holds and for ones it does not.
FrameActions(s) ==
    {a \in ClaimActions(s) :
        a.type \notin {"SET_STATE", "LOG_RECURRING_EXPENSES_FOR_MONTH"}}
    \cup UNION {{Action(c.update, WithId(id, c.data)),
                 Action(c.delete, [id |-> id])} :
                    c \in ClaimCrud, id \in {"e1", "d1", "i1", "re1"}}
    \cup {Action("UPDATE_PURCHASE_STATUS", [id |-> id, status |-> st]) :
            id \in Ids(s.purchases), st \in PurchaseStatus}
    \cup {Action("ADD_PURCHASE", s.purchases[i]) : i \in 1..Len(s.purchases)}

\* C29: an Add, Update, Delete or upsert action leaves the seven
\* collections it does not target as they were, so deleting a recurring
\* template leaves its logged expenses; UPDATE_PURCHASE_STATUS changes the
\* status of the purchases with the id and nothing else.
C29_OtherCollectionsUnchanged ==
    \A s \in {state, financialReducer(state, LogAction("2025-12"), now)} :
        \A a \in FrameActions(s) :
            LET after == financialReducer(s, a, now)
            IN  /\ DOMAIN after = DOMAIN s
                /\ \A k \in CollectionNames \ {TargetOf(a.type)} :
                      after[k] = s[k]
                /\ a.type = "UPDATE_PURCHASE_STATUS" =>
                      /\ Len(after.purchases) = Len(s.purchases)
                      /\ \A i \in 1..Len(s.purchases) :
                            after.purchases[i]
                              = IF s.purchases[i].id = a.payload.id
                                THEN [s.purchases[i] EXCEPT
                                        !.status = a.payload.status]
                                ELSE s.purchases[i]

\* A recurring template was just deleted and an expense logged from it is
\* still there.
C29_Witness ==
    /\ last.type = "DELETE_RECURRING_EXPENSE"
    /\ last.payload.id \notin Ids(state.recurringExpenses)
    /\ \E k \in 1..Len(state.expenses), M \in LogMonths :
          state.expenses[k].id = "logged-" \o last.payload.id \o "-" \o M

\* The action types the investment view dispatches that the reducer has no
\* case for, and one no view dispatches.
UnhandledActions ==
    {Action("UPDATE_BASKET_NAME", [basketId |-> BasketId, name |-> "Core"]),
     Action("RENAME", [id |-> "a1"])}
    \cup {Action("DELETE_ASSET", [basketId |-> BasketId, assetId |-> id]) :
            id \in AssetIds}
    \cup {Action("UPDATE_ASSET",
                 [basketId |-> BasketId, asset |-> WithId(id, AssetFormData)]) :
            id \in AssetIds}

\* An event of the investment view that dispatches one of the three.
DispatchesUnhandled ==
    \/ handleNameSave
    \/ handleDeleteAsset
    \/ handleSaveAsset /\ last'.type = "UPDATE_ASSET"

\* C30: the reducer returns the state it was given for an action type it
\* has no case for, and an event of the investment view that dispatches
\* DELETE_ASSET, UPDATE_ASSET or UPDATE_BASKET_NAME leaves the aggregate and
\* the stored document as they were.
C30_UnhandledActionKeepsState ==
    [][/\ \A a \in UnhandledActions : financialReducer(state, a, now) = state
       /\ DispatchesUnhandled => state' = state /\ storage' = storage]_vars

\* The investment view has just dispatched one of the three while the
\* stored document was not the aggregate in memory, and it still is not.
C30_Witness ==
    /\ last.type \in {"UPDATE_BASKET_NAME", "DELETE_ASSET", "UPDATE_ASSET"}
    /\ storage.financialData # JsonStringify(state)
    /\ state # initialState

====
